---------------------------- MODULE Spec2Model ----------------------------
(***************************************************************************)
(* A model of the editing core of pepper: the edit history with its        *)
(* coalescing rules (src/src/history.rs) and the line-oriented buffer      *)
(* content with undo (src/src/buffer.rs).                                  *)
(*                                                                         *)
(* Strings are sequences of one-character strings; all characters of the   *)
(* model are one byte long, so byte and character indices coincide.        *)
(* Indices into strings and vectors are 0-based as in the source; Slice    *)
(* and friends translate to the 1-based sequences of TLA+.                 *)
(* A Rust panic ends the program: the variable `panicked` records it and   *)
(* no operation runs after it.                                             *)
(***************************************************************************)
EXTENDS Integers, Sequences, FiniteSets, TLC

VARIABLES
    history,    \* History: texts, edits, group_ranges, state
    content,    \* BufferContent: its lines
    original,   \* the content when the open group of edits was opened
    lastOp,     \* name of the operation that ran last
    arg,        \* argument of the last operation
    ret,        \* what the last operation returned (an iterator: what it yields)
    pending,    \* the edits handed to add_edit since the open group was opened
    adds,       \* number of add_edit calls so far
    runs,       \* number of commit-delimited runs of add_edit calls so far, while
                \* only add_edit and commit_edits were called; -1 after another call
    panicked,   \* TRUE once an operation panicked
    views,      \* BufferViewCollection: its slots, a view or none in each
    commands,   \* CommandManager: its history and the capacity of the history
    command_iter, \* CommandIter: the text it has not yet read
    picker,     \* Picker: custom entries, filtered entries, cursor, scroll
    ini,        \* Ini: its sections and its properties
    editor,     \* Editor: the mode with its plugin handle, the read line
    lsp         \* LspPlugin: read_line_client_handle and the clients

vars == <<history, content, original, lastOp, arg, ret, pending, adds, runs, panicked,
          views, commands, command_iter, picker, ini, editor, lsp>>

-----------------------------------------------------------------------------
(* Bounds of the model.                                                    *)

\* most add_edit calls in one run of SpecHistory and SpecTyping
MaxAdds == 3
\* longest text of an edit in SpecMerge, SpecContent and SpecBuffer
MaxText == 2
\* most edits in one run of SpecContent and SpecBuffer
MaxOps == 2
\* largest line index and column index of a position in SpecContent and SpecBuffer
MaxLine == 2
MaxCol == 2
\* number of edits of a content whose lines are watched
MaxEdits == 2
\* largest small count of a movement of SpecMove
MaxCount == 7
\* the count of the tests that is larger than any buffer
Many == 999
\* largest number of cursors an undo of SpecCursors gives a view
MaxCursors == 3
\* largest count of a movement of SpecCursors
MaxSteps == 2
\* largest handle of a buffer of SpecRegistry
MaxBuffer == 1

-----------------------------------------------------------------------------
(* Strings and vectors, 0-based and half-open as in Rust.                  *)

\* &s[a..b] is defined (it panics otherwise)
SliceOk(s, a, b) == 0 <= a /\ a <= b /\ b <= Len(s)

\* &s[a..b]
Slice(s, a, b) == SubSeq(s, a + 1, b)

\* String::drain(a..b): the string without s[a..b]
Drain(s, a, b) == SubSeq(s, 1, a) \o SubSeq(s, b + 1, Len(s))

\* String::truncate(n) and Vec::truncate(n): no effect when n >= len
Truncate(s, n) == IF n >= Len(s) THEN s ELSE SubSeq(s, 1, n)

\* String::insert_str(idx, t); it panics when idx > len
InsertStr(s, idx, t) == SubSeq(s, 1, idx) \o t \o SubSeq(s, idx + 1, Len(s))

RECURSIVE Reverse(_)
Reverse(s) == IF s = <<>> THEN <<>> ELSE Reverse(Tail(s)) \o <<Head(s)>>

\* all sequences over S of length at most n
SeqsUpTo(S, n) == UNION {[1..k -> S] : k \in 0..n}

-----------------------------------------------------------------------------
(* BufferPosition and BufferRange (crate::buffer_position).                *)

Pos(l, c) == [line |-> l, col |-> c]

\* derived Ord of BufferPosition: by line, then by column
PosLess(p, q) == p.line < q.line \/ (p.line = q.line /\ p.col < q.col)

PosLeq(p, q) == p = q \/ PosLess(p, q)

\* BufferRange::between(a, b): from <= to
between(a, b) == IF PosLeq(a, b) THEN [from |-> a, to |-> b] ELSE [from |-> b, to |-> a]

\* BufferPosition::insert(range): where p is after text was inserted over range
PosInsert(p, r) ==
    IF PosLess(p, r.from) THEN p
    ELSE IF p.line > r.from.line
         THEN Pos(p.line + r.to.line - r.from.line, p.col)
         ELSE Pos(p.line + r.to.line - r.from.line, p.col + r.to.col - r.from.col)

\* BufferPosition::delete(range): where p is after the text of range was deleted
PosDelete(p, r) ==
    IF PosLeq(p, r.from) THEN p
    ELSE IF PosLeq(p, r.to) THEN r.from
    ELSE IF p.line > r.to.line
         THEN Pos(p.line - (r.to.line - r.from.line), p.col)
         ELSE Pos(r.from.line, r.from.col + p.col - r.to.col)

-----------------------------------------------------------------------------
(* History (src/src/history.rs).                                           *)

Insert == "Insert"
Delete == "Delete"
EditKind == {Insert, Delete}

\* struct Edit
Edit(k, r, t, c) == [kind |-> k, range |-> r, text |-> t, cursor_index |-> c]

\* struct EditInternal; texts_range is start..end
EditInternal(k, r, s, e, c) ==
    [kind |-> k, buffer_range |-> r, texts_range |-> [start |-> s, end |-> e],
     cursor_index |-> c]

\* enum HistoryState
IterIndex(i) == [tag |-> "IterIndex", index |-> i, start |-> 0, end |-> 0]
InsertGroup(s, e) == [tag |-> "InsertGroup", index |-> 0, start |-> s, end |-> e]

\* History::new, and the state History::clear leaves
NewHistory ==
    [texts |-> <<>>, edits |-> <<>>, group_ranges |-> <<>>, state |-> IterIndex(0)]

\* History::clear
clear(h) == NewHistory

\* EditInternal::as_edit_ref is defined: the slice of texts exists
as_edit_ref_ok(e, texts) == SliceOk(texts, e.texts_range.start, e.texts_range.end)

\* EditInternal::as_edit_ref
as_edit_ref(e, texts) ==
    Edit(e.kind, e.buffer_range, Slice(texts, e.texts_range.start, e.texts_range.end),
         e.cursor_index)

\* the result of try_merge_with_last: merged into the last edit (append = FALSE),
\* not merged (append = TRUE), or a panic
Merged(h, last, texts) ==
    [panic |-> FALSE, append |-> FALSE,
     h |-> [h EXCEPT !.texts = texts,
                     !.edits[Len(h.edits)] =
                         [last EXCEPT !.texts_range.end = Len(texts)]]]
NotMerged(h) == [panic |-> FALSE, append |-> TRUE, h |-> h]
MergePanic(h) == [panic |-> TRUE, append |-> FALSE, h |-> h]


\* try_merge_with_last, (Insert, Insert)
merge_insert_insert(h, last, edit) ==
    IF edit.range.from = last.buffer_range.to
    THEN Merged(h, [last EXCEPT !.buffer_range.to = edit.range.to],
                h.texts \o edit.text)
    ELSE IF edit.range.from = last.buffer_range.from
    THEN IF last.texts_range.start > Len(h.texts)
         THEN MergePanic(h)
         ELSE Merged(h, [last EXCEPT !.buffer_range.to =
                                         PosInsert(last.buffer_range.to, edit.range)],
                     InsertStr(h.texts, last.texts_range.start, edit.text))
    ELSE NotMerged(h)

\* try_merge_with_last, (Delete, Delete)
merge_delete_delete(h, last, edit) ==
    IF edit.range.from = last.buffer_range.from
    THEN Merged(h, [last EXCEPT !.buffer_range.to =
                                    PosInsert(last.buffer_range.to, edit.range)],
                h.texts \o edit.text)
    ELSE IF edit.range.to = last.buffer_range.from
    THEN IF last.texts_range.start > Len(h.texts)
         THEN MergePanic(h)
         ELSE Merged(h, [last EXCEPT !.buffer_range.from = edit.range.from],
                     InsertStr(h.texts, last.texts_range.start, edit.text))
    ELSE NotMerged(h)

\* try_merge_with_last, (Insert, Delete), the deleted span starts where the
\* inserted span starts and ends inside it
merge_delete_prefix(h, last, edit) ==
    LET s == last.texts_range.start
        e == s + Len(edit.text)
    IN  IF ~SliceOk(h.texts, s, e) THEN MergePanic(h)
        ELSE IF edit.text = Slice(h.texts, s, e)
        THEN Merged(h, [last EXCEPT !.buffer_range.to =
                                        PosDelete(last.buffer_range.to, edit.range)],
                    Drain(h.texts, s, e))
        ELSE NotMerged(h)

\* try_merge_with_last, (Insert, Delete), the deleted span ends where the
\* inserted span ends and starts inside it
merge_delete_suffix(h, last, edit) ==
    LET e == last.texts_range.end
        s == e - Len(edit.text)
    IN  IF ~SliceOk(h.texts, s, e) THEN MergePanic(h)
        ELSE IF edit.text = Slice(h.texts, s, e)
        THEN Merged(h, [last EXCEPT !.buffer_range.to = edit.range.from],
                    Truncate(h.texts, s))
        ELSE NotMerged(h)

\* try_merge_with_last, (Insert, Delete), the deleted span starts where the
\* inserted span starts and ends after it
merge_delete_over_right(h, last, edit) ==
    LET inserted_text_end == last.texts_range.end - last.texts_range.start
    IN  IF \/ ~SliceOk(edit.text, 0, inserted_text_end)
           \/ ~SliceOk(h.texts, last.texts_range.start, last.texts_range.end)
        THEN MergePanic(h)
        ELSE IF Slice(edit.text, 0, inserted_text_end)
                    = Slice(h.texts, last.texts_range.start, last.texts_range.end)
        THEN Merged(h, [last EXCEPT !.kind = Delete,
                                    !.buffer_range.to =
                                        PosDelete(edit.range.to, last.buffer_range)],
                    Truncate(h.texts, last.texts_range.start)
                        \o Slice(edit.text, inserted_text_end, Len(edit.text)))
        ELSE NotMerged(h)

\* try_merge_with_last, (Insert, Delete), the deleted span ends where the
\* inserted span ends and starts before it
merge_delete_over_left(h, last, edit) ==
    LET inserted_text_start == last.texts_range.end - last.texts_range.start
    IN  IF \/ ~SliceOk(edit.text, inserted_text_start, Len(edit.text))
           \/ ~SliceOk(h.texts, last.texts_range.start, last.texts_range.end)
        THEN MergePanic(h)
        ELSE IF Slice(edit.text, inserted_text_start, Len(edit.text))
                    = Slice(h.texts, last.texts_range.start, last.texts_range.end)
        THEN Merged(h, [last EXCEPT !.kind = Delete,
                                    !.buffer_range.to = last.buffer_range.from,
                                    !.buffer_range.from = edit.range.from],
                    Truncate(h.texts, last.texts_range.start)
                        \o Slice(edit.text, 0, inserted_text_start))
        ELSE NotMerged(h)

\* try_merge_with_last, (Insert, Delete): the first trigger that holds decides
merge_insert_delete(h, last, edit) ==
    IF last.buffer_range.from = edit.range.from
       /\ PosLeq(edit.range.to, last.buffer_range.to)
    THEN merge_delete_prefix(h, last, edit)
    ELSE IF edit.range.to = last.buffer_range.to
            /\ PosLeq(last.buffer_range.from, edit.range.from)
    THEN merge_delete_suffix(h, last, edit)
    ELSE IF edit.range.from = last.buffer_range.from
            /\ PosLeq(last.buffer_range.to, edit.range.to)
    THEN merge_delete_over_right(h, last, edit)
    ELSE IF last.buffer_range.to = edit.range.to
            /\ PosLeq(edit.range.from, last.buffer_range.from)
    THEN merge_delete_over_left(h, last, edit)
    ELSE NotMerged(h)

\* History::try_merge_with_last
try_merge_with_last(h, current_group_len, edit) ==
    IF current_group_len = 0 THEN NotMerged(h)
    ELSE LET last == h.edits[Len(h.edits)]
         IN  IF last.cursor_index # edit.cursor_index THEN NotMerged(h)
             ELSE IF last.kind = Insert /\ edit.kind = Insert
             THEN merge_insert_insert(h, last, edit)
             ELSE IF last.kind = Delete /\ edit.kind = Delete
             THEN merge_delete_delete(h, last, edit)
             ELSE IF last.kind = Insert /\ edit.kind = Delete
             THEN merge_insert_delete(h, last, edit)
             ELSE NotMerged(h)

\* open_group with a fault: the edits of the undone groups are not truncated
open_group_keeps_edits(h) ==
    IF h.state.tag = "IterIndex"
    THEN LET index == h.state.index
             edit_index == IF index < Len(h.group_ranges)
                           THEN h.group_ranges[index + 1].start
                           ELSE Len(h.edits)
         IN  [h EXCEPT !.state = InsertGroup(edit_index, edit_index),
                       !.group_ranges = Truncate(h.group_ranges, index)]
    ELSE h

\* add_edit, the match on self.state: the open group, opened when there is none
\* (the undone groups and their edits are dropped; texts is left as it is)
open_group(h) ==
    IF h.state.tag = "IterIndex"
    THEN LET index == h.state.index
             edit_index == IF index < Len(h.group_ranges)
                           THEN h.group_ranges[index + 1].start
                           ELSE Len(h.edits)
         IN  [h EXCEPT !.edits = Truncate(h.edits, edit_index),
                       !.state = InsertGroup(edit_index, edit_index),
                       !.group_ranges = Truncate(h.group_ranges, index)]
    ELSE h

\* append_edit with a fault: the open group is not extended over the new edit
append_edit_outside_group(h, edit) ==
    [h EXCEPT !.texts = h.texts \o edit.text,
              !.edits = Append(h.edits,
                               EditInternal(edit.kind, edit.range, Len(h.texts),
                                            Len(h.texts) + Len(edit.text),
                                            edit.cursor_index))]

\* add_edit, the push of a new EditInternal
append_edit(h, edit) ==
    [h EXCEPT !.state.end = h.state.end + 1,
              !.texts = h.texts \o edit.text,
              !.edits = Append(h.edits,
                               EditInternal(edit.kind, edit.range, Len(h.texts),
                                            Len(h.texts) + Len(edit.text),
                                            edit.cursor_index))]

\* History::add_edit
add_edit(h, edit) ==
    LET current_group_len == IF h.state.tag = "IterIndex" THEN 0
                             ELSE h.state.end - h.state.start
        m == try_merge_with_last(open_group(h), current_group_len, edit)
    IN  IF m.panic THEN [panic |-> TRUE, h |-> h]
        ELSE IF m.append THEN [panic |-> FALSE, h |-> append_edit(m.h, edit)]
        ELSE [panic |-> FALSE, h |-> m.h]

\* commit_edits with a fault: a group is pushed also when none is open
commit_edits_always(h) ==
    IF h.state.tag = "InsertGroup"
    THEN [h EXCEPT !.group_ranges =
                       Append(h.group_ranges,
                              [start |-> h.state.start, end |-> h.state.end]),
                   !.state = IterIndex(Len(h.group_ranges) + 1)]
    ELSE [h EXCEPT !.group_ranges =
                       Append(h.group_ranges,
                              [start |-> Len(h.edits), end |-> Len(h.edits)]),
                   !.state = IterIndex(Len(h.group_ranges) + 1)]

\* History::commit_edits
commit_edits(h) ==
    IF h.state.tag = "InsertGroup"
    THEN [h EXCEPT !.group_ranges =
                       Append(h.group_ranges,
                              [start |-> h.state.start, end |-> h.state.end]),
                   !.state = IterIndex(Len(h.group_ranges) + 1)]
    ELSE h

\* the edits of self.edits[range] as Edit values; a panic when a text slice is
\* out of bounds
edit_refs(h, range) ==
    LET es == Slice(h.edits, range.start, range.end)
    IN  [panic |-> \E i \in 1..Len(es) : ~as_edit_ref_ok(es[i], h.texts),
         out |-> [i \in 1..Len(es) |->
                     IF as_edit_ref_ok(es[i], h.texts)
                     THEN as_edit_ref(es[i], h.texts)
                     ELSE Edit(es[i].kind, es[i].buffer_range, <<>>,
                               es[i].cursor_index)]]

\* the kind flip of undo_edits
flip(kind) == IF kind = Insert THEN Delete ELSE Insert

\* undo_edits with a fault: the edits are yielded in insertion order
undo_edits_forward(h) ==
    LET c == commit_edits(h)
        index == c.state.index
        range == IF index > 0 THEN c.group_ranges[index]
                 ELSE [start |-> 0, end |-> 0]
        r == edit_refs(c, range)
    IN  [panic |-> r.panic,
         h |-> IF index > 0 THEN [c EXCEPT !.state = IterIndex(index - 1)] ELSE c,
         out |-> [i \in 1..Len(r.out) |-> [r.out[i] EXCEPT !.kind = flip(r.out[i].kind)]]]

\* History::undo_edits: the history it leaves and the edits its iterator yields
undo_edits(h) ==
    LET c == commit_edits(h)
        index == c.state.index
        range == IF index > 0 THEN c.group_ranges[index]
                 ELSE [start |-> 0, end |-> 0]
        r == edit_refs(c, range)
        rev == Reverse(r.out)
    IN  [panic |-> r.panic,
         h |-> IF index > 0 THEN [c EXCEPT !.state = IterIndex(index - 1)] ELSE c,
         out |-> [i \in 1..Len(rev) |-> [rev[i] EXCEPT !.kind = flip(rev[i].kind)]]]

\* redo_edits with a fault: the kinds are flipped as undo_edits flips them
redo_edits_flipped(h) ==
    LET c == commit_edits(h)
        index == c.state.index
        range == IF index < Len(c.group_ranges) THEN c.group_ranges[index + 1]
                 ELSE [start |-> 0, end |-> 0]
        r == edit_refs(c, range)
    IN  [panic |-> r.panic,
         h |-> IF index < Len(c.group_ranges)
               THEN [c EXCEPT !.state = IterIndex(index + 1)] ELSE c,
         out |-> [i \in 1..Len(r.out) |-> [r.out[i] EXCEPT !.kind = flip(r.out[i].kind)]]]

\* History::redo_edits: the history it leaves and the edits its iterator yields
redo_edits(h) ==
    LET c == commit_edits(h)
        index == c.state.index
        range == IF index < Len(c.group_ranges) THEN c.group_ranges[index + 1]
                 ELSE [start |-> 0, end |-> 0]
        r == edit_refs(c, range)
    IN  [panic |-> r.panic,
         h |-> IF index < Len(c.group_ranges)
               THEN [c EXCEPT !.state = IterIndex(index + 1)] ELSE c,
         out |-> r.out]


-----------------------------------------------------------------------------
(* Text and BufferContent (src/src/buffer.rs).  A content is the vector of *)
(* its lines, a line the string of its characters; "\n" is the line break. *)

\* enum Text and enum TextRef: Char(c) holds the one character of s
TextChar(c) == [tag |-> "Char", s |-> <<c>>]
TextString(s) == [tag |-> "String", s |-> s]

\* Text::from_chars
from_chars(chars) ==
    IF Len(chars) = 1 THEN TextChar(chars[1]) ELSE TextString(chars)

RECURSIVE Split(_)
\* str::split('\n'): the pieces between the line breaks of s
Split(s) ==
    IF \E i \in 1..Len(s) : s[i] = "\n"
    THEN LET i == CHOOSE k \in 1..Len(s) :
                      s[k] = "\n" /\ \A j \in 1..(k - 1) : s[j] # "\n"
         IN  <<SubSeq(s, 1, i - 1)>> \o Split(SubSeq(s, i + 1, Len(s)))
    ELSE <<s>>

\* lines() that keeps the line breaks inside of its one piece
lines_unsplit(s) == IF s = <<>> THEN <<>> ELSE <<s>>

\* str::lines(): the pieces without the empty piece after a final line break
Lines(s) ==
    LET p == Split(s)
    IN  IF p[Len(p)] = <<>> THEN SubSeq(p, 1, Len(p) - 1) ELSE p

\* str::ends_with('\n')
ends_with_newline(s) == Len(s) > 0 /\ s[Len(s)] = "\n"

\* Vec::remove(i): the vector without v[i]
VecRemove(v, i) == SubSeq(v, 1, i) \o SubSeq(v, i + 2, Len(v))

\* the result of an operation of BufferContent: the lines it leaves and what it
\* returns, or a panic
ContentDone(lines, out) == [panic |-> FALSE, lines |-> lines, out |-> out]
ContentPanic(lines) == [panic |-> TRUE, lines |-> lines, out |-> <<>>]

\* BufferContent::clamp_position; it panics on a content without lines
clamp_position(lines, position) ==
    LET line_count == Len(lines)
        line_index == IF position.line >= line_count THEN line_count - 1
                      ELSE position.line
        char_count == Len(lines[line_index + 1])
    IN  Pos(line_index, IF position.col > char_count THEN char_count ELSE position.col)

\* insert_text, TextRef::Char(c) at the clamped position
insert_char(lines, position, c) ==
    LET l == position.line + 1
    IN  IF c = "\n"
        THEN LET split_line == Slice(lines[l], position.col, Len(lines[l]))
             IN  ContentDone(SubSeq(lines, 1, l - 1)
                                 \o <<Slice(lines[l], 0, position.col), split_line>>
                                 \o SubSeq(lines, l + 1, Len(lines)),
                             Pos(position.line + 1, 0))
        ELSE ContentDone([lines EXCEPT ![l] = InsertStr(@, position.col, <<c>>)],
                         Pos(position.line, position.col + 1))

\* insert_text, TextRef::Str(text) at the clamped position: the first line of
\* text is pushed to the line of the position and the other lines are inserted
\* after it; the rest of the split line becomes a line of its own after them
\* when text ends with a line break, and is pushed back to the line of the
\* position otherwise
insert_str(lines, position, text) ==
    LET l == position.line + 1
        split_line == Slice(lines[l], position.col, Len(lines[l]))
        inserted == Lines(text)
        first == Slice(lines[l], 0, position.col)
                     \o (IF inserted = <<>> THEN <<>> ELSE Head(inserted))
        rest == IF inserted = <<>> THEN <<>> ELSE Tail(inserted)
        line_count == Len(rest)
    IN  IF ends_with_newline(text)
        THEN ContentDone(SubSeq(lines, 1, l - 1) \o <<first>> \o rest
                             \o <<split_line>> \o SubSeq(lines, l + 1, Len(lines)),
                         Pos(position.line + line_count + 1, 0))
        ELSE ContentDone(SubSeq(lines, 1, l - 1) \o <<first \o split_line>> \o rest
                             \o SubSeq(lines, l + 1, Len(lines)),
                         Pos(position.line + line_count, Len(first)))

\* BufferContent::insert_text: the lines it leaves and the range it returns
insert_text(lines, position, text) ==
    IF Len(lines) = 0 THEN ContentPanic(lines)
    ELSE LET p == clamp_position(lines, position)
             r == IF text.tag = "Char" THEN insert_char(lines, p, text.s[1])
                  ELSE insert_str(lines, p, text.s)
         IN  ContentDone(r.lines, between(p, r.out))

\* BufferContent::from_str
from_str(text) ==
    insert_text(<<<<>>>>, Pos(0, 0), TextString(text)).lines

RECURSIVE Join(_)
\* what BufferContent::write writes: the lines with a line break after each but
\* the last
Join(lines) ==
    IF Len(lines) = 0 THEN <<>>
    ELSE IF Len(lines) = 1 THEN lines[1]
    ELSE lines[1] \o <<"\n">> \o Join(Tail(lines))

RECURSIVE Concat(_)
\* the texts of lines pushed one after the other
Concat(lines) == IF lines = <<>> THEN <<>> ELSE Head(lines) \o Concat(Tail(lines))

\* delete_range, both clamped ends on one line
delete_in_line(lines, from, to) ==
    LET l == from.line + 1
    IN  IF ~SliceOk(lines[l], from.col, to.col) THEN ContentPanic(lines)
        ELSE ContentDone([lines EXCEPT ![l] = Drain(@, from.col, to.col)],
                         from_chars(Slice(lines[l], from.col, to.col)))

\* delete_range, the clamped ends on different lines: the rest of the first
\* line is drained; the lines of lines_range are drained when the range is not
\* ascending (a panic unless it is empty); the line after the first one is
\* removed and split at the column of `to`
delete_across_lines(lines, from, to) ==
    LET l == from.line + 1
        deleted_first == Slice(lines[l], from.col, Len(lines[l]))
        cut == [lines EXCEPT ![l] = Slice(@, 0, from.col)]
        start == from.line + 1
        end == to.line
        drains == start >= end
        kept == IF drains THEN Drain(cut, start, end) ELSE cut
        deleted_text == IF drains THEN deleted_first \o Concat(Slice(cut, start, end))
                        ELSE deleted_first
        to_line_index == from.line + 1
    IN  IF drains /\ ~SliceOk(cut, start, end) THEN ContentPanic(lines)
        ELSE IF to_line_index < Len(kept)
        THEN LET to_line == kept[to_line_index + 1]
             IN  IF to.col > Len(to_line) THEN ContentPanic(lines)
                 ELSE ContentDone(
                          [VecRemove(kept, to_line_index) EXCEPT
                              ![l] = @ \o Slice(to_line, to.col, Len(to_line))],
                          TextString(deleted_text \o Slice(to_line, 0, to.col)))
        ELSE ContentDone(kept, TextString(deleted_text))

\* BufferContent::delete_range: the lines it leaves and the text it returns
delete_range(lines, range) ==
    IF Len(lines) = 0 THEN ContentPanic(lines)
    ELSE LET from == clamp_position(lines, range.from)
             to == clamp_position(lines, range.to)
         IN  IF from.line = to.line THEN delete_in_line(lines, from, to)
             ELSE delete_across_lines(lines, from, to)

RECURSIVE apply_edits(_, _)
\* BufferContent::apply_edits, its iterator consumed: the lines it leaves and
\* the (kind, range) pairs it yields
apply_edits(lines, edits) ==
    IF edits = <<>> THEN ContentDone(lines, <<>>)
    ELSE LET e == Head(edits)
             r == IF e.kind = Insert THEN insert_text(lines, e.range.from, e.text)
                  ELSE delete_range(lines, e.range)
         IN  IF r.panic THEN ContentPanic(lines)
             ELSE LET more == apply_edits(r.lines, Tail(edits))
                  IN  IF more.panic THEN ContentPanic(lines)
                      ELSE ContentDone(more.lines,
                                       <<<<e.kind, e.range>>>> \o more.out)

-----------------------------------------------------------------------------
(* The operations of History as steps.  Every step records the operation,  *)
(* its argument and what it returned.                                      *)

\* the content of the specifications that have no buffer
NoContent == <<>>

\* the views of the specifications that have no view
NoViews == <<>>

\* the objects of the command line, where there is none: the specifications
\* of the buffers and the views have no command manager, command iterator
\* and picker
command_line == <<commands, command_iter, picker>>

NoCommandLine ==
    /\ commands = <<>>
    /\ command_iter = <<>>
    /\ picker = <<>>

\* the objects outside of the editing core, where there are none: the
\* specifications of the core parse no configuration and run no plugin
extensions == <<ini, editor, lsp>>

NoExtensions ==
    /\ ini = <<>>
    /\ editor = <<>>
    /\ lsp = <<>>

Step(op, a, r, h, p) ==
    /\ history' = h
    /\ lastOp' = op
    /\ arg' = a
    /\ ret' = r
    /\ pending' = p
    /\ panicked' = FALSE
    /\ UNCHANGED <<content, original, views, command_line, extensions>>

Panic(op, a) ==
    /\ lastOp' = op
    /\ arg' = a
    /\ ret' = <<>>
    /\ panicked' = TRUE
    /\ UNCHANGED <<history, content, original, pending, views, command_line, extensions>>

\* history.add_edit(edit)
AddEdit(edit) ==
    LET r == add_edit(history, edit)
    IN  /\ adds' = adds + 1
        /\ runs' = IF runs >= 0 /\ history.state.tag = "IterIndex" THEN runs + 1 ELSE runs
        /\ IF r.panic THEN Panic("add_edit", <<edit>>)
           ELSE Step("add_edit", <<edit>>, <<>>, r.h,
                     IF history.state.tag = "InsertGroup"
                     THEN Append(pending, edit) ELSE <<edit>>)

\* history.commit_edits()
CommitEdits ==
    /\ ~panicked
    /\ Step("commit_edits", <<>>, <<>>, commit_edits(history), <<>>)
    /\ UNCHANGED <<adds, runs>>

\* history.undo_edits(), its iterator consumed
UndoEdits ==
    /\ ~panicked
    /\ LET r == undo_edits(history)
       IN  IF r.panic THEN Panic("undo_edits", <<>>)
           ELSE Step("undo_edits", <<>>, r.out, r.h, <<>>)
    /\ runs' = -1
    /\ UNCHANGED adds

\* history.redo_edits(), its iterator consumed
RedoEdits ==
    /\ ~panicked
    /\ LET r == redo_edits(history)
       IN  IF r.panic THEN Panic("redo_edits", <<>>)
           ELSE Step("redo_edits", <<>>, r.out, r.h, <<>>)
    /\ runs' = -1
    /\ UNCHANGED adds

\* history.clear()
Clear ==
    /\ ~panicked
    /\ history # NewHistory
    /\ Step("clear", <<>>, <<>>, clear(history), <<>>)
    /\ runs' = 0
    /\ UNCHANGED adds

InitHistory ==
    /\ history = NewHistory
    /\ content = NoContent
    /\ original = NoContent
    /\ lastOp = "new"
    /\ arg = <<>>
    /\ ret = <<>>
    /\ pending = <<>>
    /\ adds = 0
    /\ runs = 0
    /\ panicked = FALSE
    /\ NoExtensions
    /\ NoCommandLine
    /\ views = NoViews

-----------------------------------------------------------------------------
(* SpecHistory and SpecTyping: any order of add_edit, commit_edits,        *)
(* undo_edits, redo_edits and clear.  The edits are those of typing into   *)
(* and deleting from one line: an edit over the columns from..to carries   *)
(* the text of these columns.  The line of SpecHistory reads TypedLine,    *)
(* the line of SpecTyping the longer LongLine.                             *)

TypedLine == <<"a", "b">>

LongLine == <<"a", "b", "c">>

\* the edits over a stretch of the line
EditsOfLine(line) ==
    {Edit(k, between(Pos(0, c[1]), Pos(0, c[2])), Slice(line, c[1], c[2]), 0) :
        k \in EditKind,
        c \in {d \in (0..Len(line)) \X (0..Len(line)) : d[1] < d[2]}}

HistoryAddEdit ==
    /\ ~panicked
    /\ adds < MaxAdds
    /\ \E edit \in EditsOfLine(TypedLine) : AddEdit(edit)

NextHistory ==
    \/ HistoryAddEdit
    \/ CommitEdits
    \/ UndoEdits
    \/ RedoEdits
    \/ Clear

SpecHistory == InitHistory /\ [][NextHistory]_vars

TypingAddEdit ==
    /\ ~panicked
    /\ adds < MaxAdds
    /\ \E edit \in EditsOfLine(LongLine) : AddEdit(edit)

NextTyping ==
    \/ TypingAddEdit
    \/ CommitEdits
    \/ UndoEdits
    \/ RedoEdits
    \/ Clear

SpecTyping == InitHistory /\ [][NextTyping]_vars

-----------------------------------------------------------------------------
(* SpecMerge: one group of two add_edit calls with any kinds, ranges,      *)
(* texts and cursor indices (a range need not fit its text: the tests of   *)
(* history.rs pass the default range with a text), then undone and redone. *)

MergeChars == {"a", "b"}

MergePositions == {Pos(0, 0), Pos(0, 1), Pos(1, 0), Pos(1, 1)}

MergeCursors == {0, 1}

MergeEdits ==
    {Edit(k, between(p, q), t, c) :
        k \in EditKind, p \in MergePositions, q \in MergePositions,
        t \in SeqsUpTo(MergeChars, MaxText), c \in MergeCursors}

\* the first add_edit of the group, or the second
MergeAddEdit ==
    /\ ~panicked
    /\ lastOp \in {"new", "add_edit"}
    /\ Len(pending) <= 1
    /\ \E edit \in MergeEdits : AddEdit(edit)

MergeUndoEdits ==
    /\ lastOp = "add_edit"
    /\ UndoEdits

MergeRedoEdits ==
    /\ lastOp = "undo_edits"
    /\ RedoEdits

NextMerge ==
    \/ MergeAddEdit
    \/ MergeUndoEdits
    \/ MergeRedoEdits

SpecMerge == InitHistory /\ [][NextMerge]_vars

-----------------------------------------------------------------------------
(* Buffer (src/src/buffer.rs): a content with its history.                 *)

\* history.push_edit(Edit { kind, range, text }): the edit is added for the
\* cursor 0 with the characters of its text
push_edit(h, kind, range, text) == add_edit(h, Edit(kind, range, text.s, 0))

\* the EditRef values that apply_edits takes: the text of each edit as a TextRef
edit_text_refs(edits) ==
    [i \in 1..Len(edits) |-> [edits[i] EXCEPT !.text = TextString(edits[i].text)]]

\* a step of the buffer: the operation, its argument, what it returned, and
\* the history and the content it leaves
BufferStep(op, a, r, h, c) ==
    /\ history' = h
    /\ content' = c
    /\ lastOp' = op
    /\ arg' = a
    /\ ret' = r
    /\ panicked' = FALSE
    /\ UNCHANGED <<pending, runs, views, command_line, extensions>>

BufferPanic(op, a) ==
    /\ Panic(op, a)
    /\ UNCHANGED <<adds, runs>>

\* the content before the edits that the next undo takes back
GroupStart == IF history.state.tag = "IterIndex" THEN content ELSE original

\* buffer.insert_text(position, text)
BufferInsertText(position, text) ==
    LET r == insert_text(content, position, text)
        a == push_edit(history, Insert, r.out, text)
    IN  IF r.panic \/ a.panic THEN BufferPanic("insert_text", <<position, text>>)
        ELSE /\ BufferStep("insert_text", <<position, text>>, r.out, a.h, r.lines)
             /\ original' = GroupStart
             /\ adds' = adds + 1

\* buffer.delete_range(range)
BufferDeleteRange(range) ==
    LET r == delete_range(content, range)
        a == push_edit(history, Delete, range, r.out)
    IN  IF r.panic \/ a.panic THEN BufferPanic("delete_range", <<range>>)
        ELSE /\ BufferStep("delete_range", <<range>>, <<>>, a.h, r.lines)
             /\ original' = GroupStart
             /\ adds' = adds + 1

\* buffer.undo(), its iterator consumed
BufferUndo ==
    LET u == undo_edits(history)
        r == apply_edits(content, edit_text_refs(u.out))
    IN  IF u.panic \/ r.panic THEN BufferPanic("undo", <<>>)
        ELSE /\ BufferStep("undo", <<>>, r.out, u.h, r.lines)
             /\ UNCHANGED <<original, adds>>

\* buffer.redo(), its iterator consumed
BufferRedo ==
    LET u == redo_edits(history)
        r == apply_edits(content, edit_text_refs(u.out))
    IN  IF u.panic \/ r.panic THEN BufferPanic("redo", <<>>)
        ELSE /\ BufferStep("redo", <<>>, r.out, u.h, r.lines)
             /\ UNCHANGED <<original, adds>>

\* content.insert_text(position, text)
ContentInsertText(position, text) ==
    LET r == insert_text(content, position, text)
    IN  IF r.panic THEN BufferPanic("insert_text", <<position, text>>)
        ELSE /\ BufferStep("insert_text", <<position, text>>, r.out, history, r.lines)
             /\ original' = content
             /\ adds' = adds + 1

\* content.delete_range(range)
ContentDeleteRange(range) ==
    LET r == delete_range(content, range)
    IN  IF r.panic THEN BufferPanic("delete_range", <<range>>)
        ELSE /\ BufferStep("delete_range", <<range>>, r.out, history, r.lines)
             /\ original' = content
             /\ adds' = adds + 1

-----------------------------------------------------------------------------
(* SpecContent: insert_text and delete_range on a content, at positions    *)
(* inside and outside of it.  SpecBuffer: the same edits through a Buffer, *)
(* with undo and redo.                                                     *)

\* the texts the contents are made from: no line, one line, two and three lines
BufferTexts ==
    {<<>>, <<"a", "b">>, <<"a", "b", "\n", "c", "d">>, <<"a", "\n", "b", "\n", "c">>,
     <<"a", "\n", "\n", "c", "d">>}

BufferPositions == {Pos(l, c) : l \in 0..MaxLine, c \in 0..MaxCol}

BufferRanges == {between(p, q) : p \in BufferPositions, q \in BufferPositions}

InsertedTexts ==
    {TextChar(c) : c \in {"x", "\n"}}
        \cup {TextString(t) : t \in SeqsUpTo({"x", "\n"}, MaxText)}

InitBuffer ==
    /\ history = NewHistory
    /\ content \in {from_str(t) : t \in BufferTexts}
    /\ original = content
    /\ lastOp = "new"
    /\ arg = <<>>
    /\ ret = <<>>
    /\ pending = <<>>
    /\ adds = 0
    /\ runs = 0
    /\ panicked = FALSE
    /\ NoExtensions
    /\ NoCommandLine
    /\ views = NoViews

ContentInsert ==
    /\ ~panicked
    /\ adds < MaxOps
    /\ \E position \in BufferPositions, text \in InsertedTexts :
           ContentInsertText(position, text)

ContentDelete ==
    /\ ~panicked
    /\ adds < MaxOps
    /\ \E range \in BufferRanges : ContentDeleteRange(range)

NextContent ==
    \/ ContentInsert
    \/ ContentDelete

SpecContent == InitBuffer /\ [][NextContent]_vars

BufferInsert ==
    /\ ~panicked
    /\ adds < MaxOps
    /\ \E position \in BufferPositions, text \in InsertedTexts :
           BufferInsertText(position, text)

BufferDelete ==
    /\ ~panicked
    /\ adds < MaxOps
    /\ \E range \in BufferRanges : BufferDeleteRange(range)

\* undo after edits
UndoBuffer ==
    /\ ~panicked
    /\ lastOp \in {"insert_text", "delete_range"}
    /\ BufferUndo

\* redo after an undo
RedoBuffer ==
    /\ ~panicked
    /\ lastOp = "undo"
    /\ BufferRedo

NextBuffer ==
    \/ BufferInsert
    \/ BufferDelete
    \/ UndoBuffer
    \/ RedoBuffer

SpecBuffer == InitBuffer /\ [][NextBuffer]_vars

-----------------------------------------------------------------------------
(* SpecCoalesce: consecutive edits of a text of several lines, each        *)
(* recorded by add_edit with the range and the text that were really       *)
(* inserted or removed, then undone and redone.  The content is edited as  *)
(* the ranges say (BufferContent itself is not: insert_text and            *)
(* delete_range go wrong over line breaks), so undoing the recorded edits  *)
(* one by one in reverse order gives the content where their group began.  *)

\* the texts the edits start from
CoalesceTexts == {<<>>, <<"a", "b", "\n", "c">>}

\* the texts that are typed
TypedTexts == SeqsUpTo({"x", "\n"}, MaxText) \ {<<>>}

\* the position p is a position of the lines
InLines(lines, p) ==
    /\ p.line \in 0..(Len(lines) - 1)
    /\ p.col \in 0..Len(lines[p.line + 1])

RECURSIVE OffsetOf(_, _)
\* the number of characters of the lines, line breaks counted, before p
OffsetOf(lines, p) ==
    IF p.line = 0 THEN p.col
    ELSE Len(lines[1]) + 1 + OffsetOf(Tail(lines), Pos(p.line - 1, p.col))

\* the position where a text inserted at p ends
EndOf(p, text) ==
    LET pieces == Split(text)
    IN  IF Len(pieces) = 1 THEN Pos(p.line, p.col + Len(text))
        ELSE Pos(p.line + Len(pieces) - 1, Len(pieces[Len(pieces)]))

\* the lines after text is inserted at p
TextInserted(lines, p, text) == Split(InsertStr(Join(lines), OffsetOf(lines, p), text))

\* the text of the range r of the lines, and the lines after it is removed
TextOf(lines, r) == Slice(Join(lines), OffsetOf(lines, r.from), OffsetOf(lines, r.to))

TextRemoved(lines, r) ==
    Split(Drain(Join(lines), OffsetOf(lines, r.from), OffsetOf(lines, r.to)))

RECURSIVE EditsApplied(_, _)
\* the lines after the edits are applied in order, each as its range and its
\* text say; NoContent when an edit does not fit the lines: an Insert at a
\* position outside of them, a Delete of a range that does not hold its text
EditsApplied(lines, edits) ==
    IF edits = <<>> THEN lines
    ELSE IF lines = NoContent THEN NoContent
    ELSE LET e == Head(edits)
         IN  IF e.kind = Insert
             THEN IF InLines(lines, e.range.from)
                  THEN EditsApplied(TextInserted(lines, e.range.from, e.text), Tail(edits))
                  ELSE NoContent
             ELSE IF /\ InLines(lines, e.range.from)
                     /\ InLines(lines, e.range.to)
                     /\ TextOf(lines, e.range) = e.text
                  THEN EditsApplied(TextRemoved(lines, e.range), Tail(edits))
                  ELSE NoContent

InitCoalesce ==
    /\ history = NewHistory
    /\ content \in {Split(t) : t \in CoalesceTexts}
    /\ original = content
    /\ lastOp = "new"
    /\ arg = <<>>
    /\ ret = <<>>
    /\ pending = <<>>
    /\ adds = 0
    /\ runs = 0
    /\ panicked = FALSE
    /\ NoExtensions
    /\ NoCommandLine
    /\ views = NoViews

\* the edit is made to the content and recorded by add_edit
CoalesceEdit(edit, lines) ==
    LET a == add_edit(history, edit)
    IN  IF a.panic THEN BufferPanic("add_edit", <<edit>>)
        ELSE /\ BufferStep("add_edit", <<edit>>, <<>>, a.h, lines)
             /\ original' = GroupStart
             /\ adds' = adds + 1

\* a text is inserted at a position of the content
CoalesceInsert ==
    /\ ~panicked
    /\ adds < MaxOps
    /\ \E l \in 0..(Len(content) - 1), text \in TypedTexts :
           \E c \in 0..Len(content[l + 1]) :
               CoalesceEdit(Edit(Insert, between(Pos(l, c), EndOf(Pos(l, c), text)), text, 0),
                            TextInserted(content, Pos(l, c), text))

\* a range of the content is removed
CoalesceDelete ==
    /\ ~panicked
    /\ adds < MaxOps
    /\ \E p \in BufferPositions, q \in BufferPositions :
           /\ InLines(content, p)
           /\ InLines(content, q)
           /\ PosLess(p, q)
           /\ CoalesceEdit(Edit(Delete, between(p, q), TextOf(content, between(p, q)), 0),
                           TextRemoved(content, between(p, q)))

\* undo_edits after the edits of a group, its edits applied to the content
CoalesceUndo ==
    /\ ~panicked
    /\ lastOp = "add_edit"
    /\ LET u == undo_edits(history)
       IN  IF u.panic THEN BufferPanic("undo_edits", <<>>)
           ELSE /\ BufferStep("undo_edits", <<>>, u.out, u.h, EditsApplied(content, u.out))
                /\ UNCHANGED <<original, adds>>

\* redo_edits after the undo, its edits applied to the content
CoalesceRedo ==
    /\ ~panicked
    /\ lastOp = "undo_edits"
    /\ LET u == redo_edits(history)
       IN  IF u.panic THEN BufferPanic("redo_edits", <<>>)
           ELSE /\ BufferStep("redo_edits", <<>>, u.out, u.h, EditsApplied(content, u.out))
                /\ UNCHANGED <<original, adds>>

NextCoalesce ==
    \/ CoalesceInsert
    \/ CoalesceDelete
    \/ CoalesceUndo
    \/ CoalesceRedo

SpecCoalesce == InitCoalesce /\ [][NextCoalesce]_vars

\* the content after the edits of redo_edits on the history h are applied to
\* the lines, NoContent when redo_edits panics
Redone(h, lines) ==
    LET u == redo_edits(h)
    IN  IF u.panic THEN NoContent ELSE EditsApplied(lines, u.out)

\* C36: coalescing does not change what undo and redo do.  After consecutive
\* real edits of a buffer within one group, applying the edits that
\* undo_edits yields in order to the edited content gives the content that
\* undoing the recorded edits one by one in reverse order gives, the content
\* where the group began, and applying the edits of a following redo_edits
\* gives the edited content again.
C36_CoalescingKeepsUndoRedo ==
    [][lastOp' = "undo_edits" =>
        /\ ~panicked'
        /\ content' = original
        /\ Redone(history', content') = content]_vars

\* the same for the edits that stay on one line
UndoRedoInOneLine ==
    [][(lastOp' = "undo_edits" /\ Len(original) = 1 /\ Len(content) = 1
            /\ \A i \in 1..Len(ret') : ret'[i].range.to.line = 0) =>
        /\ ~panicked'
        /\ content' = original
        /\ Redone(history', content') = content]_vars

-----------------------------------------------------------------------------
(* Properties of History.  In a step property the unprimed variables are   *)
(* the state before the operation and the primed ones the state after it.  *)

\* the i-th stored edit (1-based) as the Edit it stands for
StoredEdit(h, i) ==
    [kind |-> h.edits[i].kind,
     range |-> h.edits[i].buffer_range,
     text |-> SubSeq(h.texts, h.edits[i].texts_range.start + 1,
                     h.edits[i].texts_range.end),
     cursor_index |-> h.edits[i].cursor_index]

Flipped(e) == [e EXCEPT !.kind = IF e.kind = Insert THEN Delete ELSE Insert]

\* the groups of h, the open group counted as the last one
Groups(h) ==
    IF h.state.tag = "InsertGroup"
    THEN Append(h.group_ranges, [start |-> h.state.start, end |-> h.state.end])
    ELSE h.group_ranges

\* the number of groups of h that are not undone
Done(h) == IF h.state.tag = "InsertGroup" THEN Len(Groups(h)) ELSE h.state.index

\* the stored edits of the g-th group (1-based), in insertion order
GroupEdits(h, g) ==
    LET r == Groups(h)[g]
    IN  [k \in 1..(r.end - r.start) |-> StoredEdit(h, r.start + k)]

AllCommitted(h) == h.state.tag = "IterIndex"

\* the committed group ranges of h are non-empty, the first starts at edit 0
\* and each starts where the one before it ends
GroupsContiguous(h) ==
    /\ \A g \in 1..Len(h.group_ranges) : h.group_ranges[g].start < h.group_ranges[g].end
    /\ Len(h.group_ranges) > 0 => h.group_ranges[1].start = 0
    /\ \A g \in 2..Len(h.group_ranges) :
           h.group_ranges[g].start = h.group_ranges[g - 1].end

\* the end of the last committed group of h
CommittedEnd(h) ==
    IF h.group_ranges = <<>> THEN 0 ELSE h.group_ranges[Len(h.group_ranges)].end

\* the state of h: an open group starts where the last committed group ends
\* and ends at edits.len(); an iteration index is at most the number of groups
\* and all edits are in groups
StateInRange(h) ==
    IF h.state.tag = "InsertGroup"
    THEN /\ h.state.start = CommittedEnd(h)
         /\ h.state.start < h.state.end
         /\ h.state.end = Len(h.edits)
    ELSE /\ h.state.index \in 0..Len(h.group_ranges)
         /\ CommittedEnd(h) = Len(h.edits)

\* the texts_range of every stored edit of h lies inside texts, and the
\* ranges of different edits are disjoint and in the order of the edits
TextsRangesOrdered(h) ==
    /\ \A i \in 1..Len(h.edits) :
           SliceOk(h.texts, h.edits[i].texts_range.start, h.edits[i].texts_range.end)
    /\ \A i \in 2..Len(h.edits) :
           h.edits[i - 1].texts_range.end <= h.edits[i].texts_range.start

\* add_edit merged the edit into the last stored edit
MergedIntoLast ==
    /\ lastOp' = "add_edit"
    /\ ~panicked'
    /\ history.state.tag = "InsertGroup"
    /\ Len(history'.edits) = Len(history.edits)

\* C37: in every reachable History state the group ranges are non-empty, in
\* order and contiguous from edit 0, the open group if any starts where the
\* last committed group ends and ends at edits.len(), the iteration index is
\* between 0 and the number of groups, and the texts_range of every stored
\* edit lies inside texts with the ranges of different edits disjoint and
\* ordered; and a merge into the last edit leaves every earlier stored edit
\* with its text, range and kind.
C37_HistoryWellFormed ==
    /\ [](GroupsContiguous(history) /\ StateInRange(history)
              /\ TextsRangesOrdered(history))
    /\ [][MergedIntoLast =>
              \A i \in 1..(Len(history.edits) - 1) :
                  StoredEdit(history', i) = StoredEdit(history, i)]_vars

\* a merge into the edit of the open second group, the edit of the committed
\* first group stored before it
C37_Witness ==
    /\ lastOp = "add_edit"
    /\ ~panicked
    /\ Len(pending) = 2
    /\ Len(history.group_ranges) = 1
    /\ history.state = InsertGroup(1, 2)
    /\ Len(history.edits) = 2
    /\ Len(history.texts) > 2

\* the result of the n-th of n consecutive undo_edits calls, n >= 1
RECURSIVE UndoTimes(_, _)
UndoTimes(h, n) == IF n <= 1 THEN undo_edits(h) ELSE UndoTimes(undo_edits(h).h, n - 1)

\* the number of consecutive undo_edits calls that yield at least one edit
RECURSIVE CountUndos(_, _)
CountUndos(h, fuel) ==
    IF fuel = 0 THEN 0
    ELSE LET u == undo_edits(h)
         IN  IF u.out = <<>> THEN 0 ELSE 1 + CountUndos(u.h, fuel - 1)

\* C2: on a History whose groups are all committed and that has a group to
\* undo, undo_edits followed immediately by redo_edits leaves the History as
\* it was before the undo, and redo_edits yields the edits undo_edits yielded
\* in the opposite order with their kinds flipped back.
C2_RedoAfterUndoIsIdentity ==
    [][(lastOp' = "undo_edits" /\ ~panicked'
            /\ AllCommitted(history) /\ history.state.index > 0)
        => LET r == redo_edits(history')
           IN  /\ ~r.panic
               /\ r.h = history
               /\ r.out = Reverse([k \in 1..Len(ret') |-> Flipped(ret'[k])])]_vars

\* C2 witness: a redo has just yielded a group of two edits again while a
\* later group is still undone (both groups were committed and undone before).
C2_Witness ==
    /\ lastOp = "redo_edits"
    /\ Len(ret) >= 2
    /\ Len(history.group_ranges) >= 2
    /\ history.state = IterIndex(1)

\* C3: an add_edit after undo_edits calls (state IterIndex(i) with i below the
\* number of groups) discards the undone groups for good: the next redo_edits
\* yields nothing, the next undo_edits yields only the new edit, the i
\* undo_edits calls after that yield the groups below i as they would have
\* been yielded before the add_edit, and the call after those yields nothing.
C3_AddEditDiscardsRedo ==
    [][(lastOp' = "add_edit" /\ ~panicked'
            /\ AllCommitted(history)
            /\ history.state.index < Len(history.group_ranges))
        => LET i == history.state.index
           IN  /\ redo_edits(history').out = <<>>
               /\ undo_edits(history').out = <<Flipped(arg'[1])>>
               /\ \A k \in 1..i :
                      UndoTimes(history', k + 1).out = UndoTimes(history, k).out
               /\ UndoTimes(history', i + 2).out = <<>>
               /\ Len(Groups(history')) = i + 1]_vars

\* C3 witness: an edit was added over a discarded group: one committed group
\* is left below the open group and the text of the discarded edit still lies
\* in texts between those of the two stored edits.
C3_Witness ==
    /\ lastOp = "add_edit"
    /\ Len(pending) = 1
    /\ Len(history.group_ranges) = 1
    /\ Len(history.edits) = 2
    /\ history.edits[2].texts_range.start > history.edits[1].texts_range.end

\* C4: undo_edits yields the stored edits of the most recent group that is not
\* undone, last edit first, each with its kind flipped and its range, text and
\* cursor_index as stored, and lowers the iteration index by one; redo_edits
\* yields the stored edits of the next undone group in insertion order as
\* stored and raises the index by one.  Neither changes a stored edit.
C4_UndoRedoYield ==
    [][~panicked' =>
        /\ (lastOp' = "undo_edits" /\ Done(history) > 0)
            => LET es == GroupEdits(history, Done(history))
               IN  /\ ret' = [k \in 1..Len(es) |-> Flipped(es[Len(es) + 1 - k])]
                   /\ history'.state = IterIndex(Done(history) - 1)
                   /\ history'.group_ranges = Groups(history)
                   /\ history'.edits = history.edits
                   /\ history'.texts = history.texts
        /\ (lastOp' = "redo_edits" /\ Done(history) < Len(Groups(history)))
            => /\ ret' = GroupEdits(history, Done(history) + 1)
               /\ history'.state = IterIndex(Done(history) + 1)
               /\ history'.group_ranges = Groups(history)
               /\ history'.edits = history.edits
               /\ history'.texts = history.texts]_vars

\* C4 witness: an undo has just yielded a group of two stored edits of
\* different kinds.
C4_Witness ==
    /\ lastOp = "undo_edits"
    /\ Len(ret) = 2
    /\ ret[1].kind # ret[2].kind
    /\ ret[1].text # ret[2].text

\* C8: one undo step rolls back one group: on a History built by add_edit and
\* commit_edits calls alone, as many consecutive undo_edits calls yield an edit
\* as there were commit-delimited runs of add_edit calls, and the next one
\* yields nothing.  No group is empty, commit_edits without an open group
\* changes nothing, and a History without edits yields no edit.
C8_OneUndoPerGroup ==
    ~panicked =>
        /\ runs >= 0 => CountUndos(history, Len(history.edits) + 1) = runs
        /\ \A g \in 1..Len(history.group_ranges) :
               history.group_ranges[g].start < history.group_ranges[g].end
        /\ AllCommitted(history) => commit_edits(history) = history
        /\ history.edits = <<>> => (ret = <<>> /\ history.group_ranges = <<>>)

\* C8 witness: two runs of add_edit calls, the first of two stored edits,
\* delimited by a commit and not undone.
C8_Witness ==
    /\ runs = 2
    /\ Len(history.group_ranges) = 1
    /\ history.group_ranges[1].end = 2
    /\ history.state.tag = "InsertGroup"

IsPrefix(p, t) == Len(p) <= Len(t) /\ SubSeq(t, 1, Len(p)) = p

IsSuffix(p, t) == Len(p) <= Len(t) /\ SubSeq(t, Len(t) - Len(p) + 1, Len(t)) = p

\* t without its first n characters, and without its last n characters
DropFirst(t, n) == SubSeq(t, n + 1, Len(t))
DropLast(t, n) == SubSeq(t, 1, Len(t) - n)

OnOneLine(r) == r.from.line = r.to.line

\* p moved n columns back on its line
ColumnsBack(p, n) == Pos(p.line, p.col - n)

\* the edit an Insert l and a following Delete e of the same cursor amount to,
\* both on one line; NoEdit when the claim does not cover the pair
NoEdit == [kind |-> "none"]
NetEdit(l, e) ==
    IF /\ l.range.from = e.range.from /\ PosLeq(e.range.to, l.range.to)
       /\ IsPrefix(e.text, l.text)
    THEN Edit(Insert, [from |-> l.range.from,
                       to |-> ColumnsBack(l.range.to, Len(e.text))],
              DropFirst(l.text, Len(e.text)), l.cursor_index)
    ELSE IF /\ l.range.to = e.range.to /\ PosLeq(l.range.from, e.range.from)
            /\ IsSuffix(e.text, l.text)
    THEN Edit(Insert, [from |-> l.range.from, to |-> e.range.from],
              DropLast(l.text, Len(e.text)), l.cursor_index)
    ELSE IF /\ l.range.from = e.range.from /\ PosLess(l.range.to, e.range.to)
            /\ IsPrefix(l.text, e.text)
    THEN Edit(Delete, [from |-> e.range.from,
                       to |-> ColumnsBack(e.range.to, Len(l.text))],
              DropFirst(e.text, Len(l.text)), l.cursor_index)
    ELSE IF /\ l.range.to = e.range.to /\ PosLess(e.range.from, l.range.from)
            /\ IsSuffix(l.text, e.text)
    THEN Edit(Delete, [from |-> e.range.from, to |-> l.range.from],
              DropLast(e.text, Len(l.text)), l.cursor_index)
    ELSE NoEdit

\* the last stored edit of the open group of h is an Insert that add_edit(e)
\* may merge the Delete e into
InsertThenDelete(h, e) ==
    /\ h.state.tag = "InsertGroup"
    /\ h.state.end > h.state.start
    /\ StoredEdit(h, Len(h.edits)).kind = Insert
    /\ e.kind = Delete
    /\ StoredEdit(h, Len(h.edits)).cursor_index = e.cursor_index
    /\ OnOneLine(StoredEdit(h, Len(h.edits)).range)
    /\ OnOneLine(e.range)

\* C6: within one open group an Insert followed by a Delete of the same
\* cursor, whose range shares its start or its end with the inserted range
\* and whose text matches the inserted text there, is stored as the one edit
\* with the net effect: inside the inserted span, an Insert of the remaining
\* text over the remaining range; covering it, a Delete of the text that had
\* not been inserted.  No other stored edit changes.  Insert "abc", Delete of
\* the trailing "c", Delete of "b" leaves one stored Insert of "a".
C6_InsertDeleteCoalesced ==
    [][(lastOp' = "add_edit" /\ ~panicked') =>
        /\ (InsertThenDelete(history, arg'[1])
              /\ NetEdit(StoredEdit(history, Len(history.edits)), arg'[1]) # NoEdit)
            => /\ Len(history'.edits) = Len(history.edits)
               /\ StoredEdit(history', Len(history.edits))
                      = NetEdit(StoredEdit(history, Len(history.edits)), arg'[1])
               /\ \A i \in 1..(Len(history.edits) - 1) :
                      StoredEdit(history', i) = StoredEdit(history, i)
        /\ pending' = <<Edit(Insert, between(Pos(0, 0), Pos(0, 3)), <<"a", "b", "c">>, 0),
                        Edit(Delete, between(Pos(0, 2), Pos(0, 3)), <<"c">>, 0),
                        Edit(Delete, between(Pos(0, 1), Pos(0, 2)), <<"b">>, 0)>>
            => GroupEdits(history', Len(Groups(history')))
                   = <<Edit(Insert, between(Pos(0, 0), Pos(0, 1)), <<"a">>, 0)>>]_vars

\* the extent of a range: the line breaks it spans and the columns of its
\* last line (counted from range.from when it spans no line break)
Extent(r) ==
    [lines |-> r.to.line - r.from.line,
     cols |-> IF r.to.line = r.from.line THEN r.to.col - r.from.col ELSE r.to.col]

\* the position where a text of extent x that starts at p ends
After(p, x) ==
    IF x.lines = 0 THEN Pos(p.line, p.col + x.cols) ELSE Pos(p.line + x.lines, x.cols)

\* the range from p over a text of extent x followed by a text of extent y
Spanning(p, x, y) == [from |-> p, to |-> After(After(p, x), y)]

\* the last stored edit of the open group of h has the kind and the cursor
\* index of e
SameKindFollows(h, e) ==
    /\ h.state.tag = "InsertGroup"
    /\ h.state.end > h.state.start
    /\ StoredEdit(h, Len(h.edits)).kind = e.kind
    /\ StoredEdit(h, Len(h.edits)).cursor_index = e.cursor_index

\* the one edit that an edit l and a following adjacent edit e of the same
\* kind and cursor amount to; NoEdit when they are not adjacent
Joined(l, e) ==
    IF l.kind = Insert /\ e.range.from = l.range.to
    THEN Edit(Insert, Spanning(l.range.from, Extent(l.range), Extent(e.range)),
              l.text \o e.text, l.cursor_index)
    ELSE IF l.kind = Insert /\ e.range.from = l.range.from
    THEN Edit(Insert, Spanning(l.range.from, Extent(e.range), Extent(l.range)),
              e.text \o l.text, l.cursor_index)
    ELSE IF l.kind = Delete /\ e.range.from = l.range.from
    THEN Edit(Delete, Spanning(l.range.from, Extent(l.range), Extent(e.range)),
              l.text \o e.text, l.cursor_index)
    ELSE IF l.kind = Delete /\ e.range.to = l.range.from
    THEN Edit(Delete, Spanning(e.range.from, Extent(e.range), Extent(l.range)),
              e.text \o l.text, l.cursor_index)
    ELSE NoEdit

\* C5: within one open group two consecutive add_edit calls of the same kind
\* and cursor_index whose ranges are adjacent are stored as exactly one edit:
\* its text is the two texts concatenated in buffer order and its range spans
\* both edits.  No other stored edit changes.
C5_SameKindCoalesced ==
    [][(lastOp' = "add_edit" /\ SameKindFollows(history, arg'[1])
            /\ Joined(StoredEdit(history, Len(history.edits)), arg'[1]) # NoEdit)
        => /\ ~panicked'
           /\ Len(history'.edits) = Len(history.edits)
           /\ StoredEdit(history', Len(history.edits))
                  = Joined(StoredEdit(history, Len(history.edits)), arg'[1])
           /\ \A i \in 1..(Len(history.edits) - 1) :
                  StoredEdit(history', i) = StoredEdit(history, i)]_vars

\* a range trigger of the (Insert, Delete) merges holds of the stored Insert l
\* and the Delete e
CrossKindTrigger(l, e) ==
    \/ l.range.from = e.range.from
    \/ l.range.to = e.range.to

\* the text of the Delete e equals the part of the text of the stored Insert l
\* that the first trigger that holds compares it with
CrossKindTextMatches(l, e) ==
    IF l.range.from = e.range.from /\ PosLeq(e.range.to, l.range.to)
    THEN IsPrefix(e.text, l.text)
    ELSE IF l.range.to = e.range.to /\ PosLeq(l.range.from, e.range.from)
    THEN IsSuffix(e.text, l.text)
    ELSE IF l.range.from = e.range.from
    THEN IsPrefix(l.text, e.text)
    ELSE IsSuffix(l.text, e.text)

\* the last stored edit of the open group of h is an Insert of the cursor of
\* the Delete e
DeleteFollowsInsert(h, e) ==
    /\ h.state.tag = "InsertGroup"
    /\ h.state.end > h.state.start
    /\ StoredEdit(h, Len(h.edits)).kind = Insert
    /\ e.kind = Delete
    /\ StoredEdit(h, Len(h.edits)).cursor_index = e.cursor_index

\* C7: a Delete that follows an Insert and whose range satisfies a cross-kind
\* merge trigger, but whose text is not equal to the corresponding part of the
\* stored inserted text, is never merged: it is appended as a separate stored
\* edit and the stored edits before it are unchanged.
C7_MismatchNeverMerged ==
    [][(lastOp' = "add_edit" /\ DeleteFollowsInsert(history, arg'[1])
            /\ CrossKindTrigger(StoredEdit(history, Len(history.edits)), arg'[1])
            /\ ~CrossKindTextMatches(StoredEdit(history, Len(history.edits)), arg'[1]))
        => /\ ~panicked'
           /\ Len(history'.edits) = Len(history.edits) + 1
           /\ StoredEdit(history', Len(history'.edits)) = arg'[1]
           /\ \A i \in 1..Len(history.edits) :
                  StoredEdit(history', i) = StoredEdit(history, i)]_vars

-----------------------------------------------------------------------------
(* Properties of BufferContent and Buffer.                                 *)

RECURSIVE Offset(_, _)
\* the index of position p in the text Join(lines)
Offset(lines, p) ==
    IF p.line = 0 THEN p.col
    ELSE Len(Head(lines)) + 1 + Offset(Tail(lines), Pos(p.line - 1, p.col))

\* text t spliced into text s at index i
Spliced(s, i, t) == SubSeq(s, 1, i) \o t \o SubSeq(s, i + 1, Len(s))

\* the position just after the last character of text t inserted at position p
TextEnd(p, t) ==
    LET pieces == Split(t)
    IN  IF Len(pieces) = 1 THEN Pos(p.line, p.col + Len(t))
        ELSE Pos(p.line + Len(pieces) - 1, Len(pieces[Len(pieces)]))

\* C9: content.insert_text(pos, text) leaves the content whose joined text is
\* the old joined text with text spliced in at the clamped pos, no line of it
\* holding a line break, and returns the range from the clamped pos to the
\* position just after the last inserted character.
C9_InsertTextSplices ==
    [][lastOp' = "insert_text"
        => LET p == clamp_position(content, arg'[1])
               t == arg'[2].s
           IN  /\ ~panicked'
               /\ Join(content') = Spliced(Join(content), Offset(content, p), t)
               /\ content' = Split(Join(content'))
               /\ ret' = [from |-> p, to |-> TextEnd(p, t)]]_vars

\* C10: content.delete_range(range) leaves the content whose joined text is
\* the old joined text without the text between the clamped ends of range,
\* returns the removed text, and inserting the returned text at range.from
\* restores the content.
C10_DeleteRangeRemoves ==
    [][lastOp' = "delete_range"
        => LET from == clamp_position(content, arg'[1].from)
               to == clamp_position(content, arg'[1].to)
               old == Join(content)
               a == Offset(content, from)
               b == Offset(content, to)
           IN  /\ ~panicked'
               /\ Join(content') = SubSeq(old, 1, a) \o SubSeq(old, b + 1, Len(old))
               /\ content' = Split(Join(content'))
               /\ ret'.s = SubSeq(old, a + 1, b)
               /\ insert_text(content', arg'[1].from, ret').lines = content]_vars

\* C1: buffer.undo() after insert_text and delete_range calls with no commit
\* in between leaves the content that was there before the calls.
C1_UndoRestoresContent ==
    [][(lastOp' = "undo" /\ history.state.tag = "InsertGroup")
        => (~panicked' /\ content' = original)]_vars


-----------------------------------------------------------------------------
(* SpecLines: insert_text and delete_range on a content, at positions      *)
(* inside and outside of it, watching the lines only: what was asked and   *)
(* what was returned is not kept.                                          *)

LinesInsert ==
    /\ ~panicked
    /\ adds < MaxEdits
    /\ \E position \in BufferPositions, text \in InsertedTexts :
           LET r == insert_text(content, position, text)
           IN  IF r.panic THEN BufferPanic("insert_text", <<>>)
               ELSE /\ BufferStep("insert_text", <<>>, <<>>, history, r.lines)
                    /\ UNCHANGED original
                    /\ adds' = adds + 1

LinesDelete ==
    /\ ~panicked
    /\ adds < MaxEdits
    /\ \E range \in BufferRanges :
           LET r == delete_range(content, range)
           IN  IF r.panic THEN BufferPanic("delete_range", <<>>)
               ELSE /\ BufferStep("delete_range", <<>>, <<>>, history, r.lines)
                    /\ UNCHANGED original
                    /\ adds' = adds + 1

NextLines ==
    \/ LinesInsert
    \/ LinesDelete

SpecLines == InitBuffer /\ [][NextLines]_vars

\* C11: after from_str and any sequence of insert_text and delete_range, at
\* any positions and ranges, the content has at least one line and no line
\* of it holds a line break.
C11_LinesInvariant ==
    /\ Len(content) >= 1
    /\ \A l \in 1..Len(content) : \A i \in 1..Len(content[l]) : content[l][i] # "\n"

\* edits that have changed the number of lines the content started with
C11_Witness ==
    /\ ~panicked
    /\ adds = MaxEdits
    /\ Len(content) # Len(original)
    /\ C11_LinesInvariant

-----------------------------------------------------------------------------
(* Cursors and their collection (crate::cursor), after sections 3 and 4.E  *)
(* of the specification.  A mutation guard is the collection in the hands  *)
(* of one operation; its release sorts and merges the cursors.             *)

Cursor(anchor, position) == [anchor |-> anchor, position |-> position]

\* BufferPosition::zero()
zero == Pos(0, 0)

\* the selection of a cursor: min(anchor, position)..max(anchor, position)
to_range(c) == between(c.anchor, c.position)

\* Cursor::insert(range), Cursor::delete(range): the translation applied to
\* the anchor and to the position
cursor_insert(c, range) == Cursor(PosInsert(c.anchor, range), PosInsert(c.position, range))

cursor_delete(c, range) == Cursor(PosDelete(c.anchor, range), PosDelete(c.position, range))

\* a collection: the cursors, the index of the main one, and the saved columns
CursorCollection(list, main, saved) == [list |-> list, main |-> main, saved |-> saved]

\* CursorCollection::new(): one cursor, at zero
NewCursors == CursorCollection(<<Cursor(zero, zero)>>, 0, <<>>)

\* cursors.mut_guard(): the saved columns are dropped at the release unless
\* the operation saves the columns
mut_guard(cursors) ==
    [list |-> cursors.list, main |-> cursors.main, saved |-> cursors.saved,
     clear_saved |-> TRUE]

\* guard.clear()
guard_clear(g) == [g EXCEPT !.list = <<>>, !.main = 0]

\* guard.add(cursor): the added cursor is the main one
guard_add(g, c) == [g EXCEPT !.list = Append(g.list, c), !.main = Len(g.list)]

\* the guard with all its cursors replaced, as `for c in &mut cursors[..]` does
guard_set(g, list) == [g EXCEPT !.list = list]

\* guard.save_column_byte_indices(): the columns of the positions are saved
\* unless saved columns are there already, and are kept at the release
save_column_byte_indices(g) ==
    [g EXCEPT !.clear_saved = FALSE,
              !.saved = IF g.saved = <<>>
                        THEN [i \in 1..Len(g.list) |-> g.list[i].position.col]
                        ELSE g.saved]

None == [some |-> FALSE, v |-> 0]
Some(v) == [some |-> TRUE, v |-> v]

\* guard.get_saved_column_byte_index(i)
get_saved_column_byte_index(g, i) ==
    IF i < Len(g.saved) THEN Some(g.saved[i + 1]) ELSE None

RECURSIVE sort_by_position(_)
\* step (1) of the release: the cursors in the order of their positions
sort_by_position(list) ==
    IF Len(list) <= 1 THEN list
    ELSE LET h == Head(list)
             rest == sort_by_position(Tail(list))
             k == Cardinality({i \in 1..Len(rest) : PosLess(rest[i].position, h.position)})
         IN  SubSeq(rest, 1, k) \o <<h>> \o SubSeq(rest, k + 1, Len(rest))

\* the selections of two cursors touch or overlap
touches(a, b) ==
    /\ PosLeq(to_range(a).from, to_range(b).to)
    /\ PosLeq(to_range(b).from, to_range(a).to)

\* two cursors merged: min(from)..max(to), in the direction of the first
merge_cursors(a, b) ==
    LET from == IF PosLeq(to_range(a).from, to_range(b).from)
                THEN to_range(a).from ELSE to_range(b).from
        to == IF PosLeq(to_range(b).to, to_range(a).to)
              THEN to_range(a).to ELSE to_range(b).to
    IN  IF PosLeq(a.anchor, a.position) THEN Cursor(from, to) ELSE Cursor(to, from)

RECURSIVE merge_adjacent(_, _)
\* step (2) of the release: a walk over the sorted cursors that merges a
\* cursor into the one before it when their selections touch or overlap
merge_adjacent(done, rest) ==
    IF rest = <<>> THEN done
    ELSE IF done # <<>> /\ touches(done[Len(done)], Head(rest))
         THEN merge_adjacent([done EXCEPT ![Len(done)] = merge_cursors(@, Head(rest))],
                             Tail(rest))
         ELSE merge_adjacent(Append(done, Head(rest)), Tail(rest))

\* step (3) of the release: the index of the cursor at the position the main
\* cursor had, or 0
main_index(list, position) ==
    IF \E i \in 1..Len(list) : list[i].position = position
    THEN (CHOOSE i \in 1..Len(list) :
              /\ list[i].position = position
              /\ \A j \in 1..(i - 1) : list[j].position # position) - 1
    ELSE 0

\* the release of the guard
release(g) ==
    LET merged == merge_adjacent(<<>>, sort_by_position(g.list))
    IN  CursorCollection(merged,
                         IF g.main < Len(g.list)
                         THEN main_index(merged, g.list[g.main + 1].position) ELSE 0,
                         IF g.clear_saved THEN <<>> ELSE g.saved)

-----------------------------------------------------------------------------
(* Words of a line (crate::word_database), after section 4.G of the        *)
(* specification: runs of identifier characters, runs of symbol            *)
(* characters and runs of whitespace.                                      *)

IdentifierChars ==
    {"a", "b", "c", "d", "e", "f", "g", "h", "i", "k", "l", "m", "x", "_", "1", "2", "3",
     "é"}

WhitespaceChars == {" "}

\* WordKind of the words that start with the character c
word_kind(c) ==
    IF c \in WhitespaceChars THEN "Whitespace"
    ELSE IF c \in IdentifierChars THEN "Identifier" ELSE "Symbol"

Word(kind, text) == [kind |-> kind, text |-> text]

RECURSIVE WordIter(_)
\* WordIter(s): the words of s from left to right
WordIter(s) ==
    IF s = <<>> THEN <<>>
    ELSE LET kind == word_kind(s[1])
             n == CHOOSE k \in 1..Len(s) :
                      /\ \A i \in 1..k : word_kind(s[i]) = kind
                      /\ k = Len(s) \/ word_kind(s[k + 1]) # kind
         IN  <<Word(kind, SubSeq(s, 1, n))>> \o WordIter(SubSeq(s, n + 1, Len(s)))

\* line.word_at(0): the first word of the line; an empty whitespace word in
\* an empty line
word_at_start(line) ==
    IF line = <<>> THEN Word("Whitespace", <<>>) ELSE Head(WordIter(line))

\* the characters of two bytes in UTF-8; the other characters have one byte
TwoByteChars == {"é"}

\* char::len_utf8
len_utf8(c) == IF c \in TwoByteChars THEN 2 ELSE 1

RECURSIVE str_len(_)
\* str::len(): the bytes of the characters of s
str_len(s) == IF s = <<>> THEN 0 ELSE len_utf8(Head(s)) + str_len(Tail(s))

\* str::char_indices(): the byte indices of the characters of s
char_indices(s) == [i \in 1..Len(s) |-> str_len(SubSeq(s, 1, i - 1))]

\* str::is_char_boundary(index)
is_char_boundary(s, index) ==
    index = str_len(s) \/ \E i \in 1..Len(s) : char_indices(s)[i] = index

\* &s[index..], index being a character boundary
str_from(s, index) ==
    LET at == SelectSeq([i \in 1..Len(s) |-> i], LAMBDA i : char_indices(s)[i] >= index)
    IN  [k \in 1..Len(at) |-> s[at[k]]]

\* &s[..index], index being a character boundary
str_to(s, index) ==
    LET at == SelectSeq([i \in 1..Len(s) |-> i], LAMBDA i : char_indices(s)[i] < index)
    IN  [k \in 1..Len(at) |-> s[at[k]]]

\* BufferContent::saturate_position: the position moved into the content,
\* the column to the length of the line and then back to the start of the
\* character it is in
saturate_position(lines, position) ==
    LET line_index == IF position.line >= Len(lines) THEN Len(lines) - 1 ELSE position.line
        line == lines[line_index + 1]
        column == IF position.col > str_len(line) THEN str_len(line) ELSE position.col
    IN  Pos(line_index, CHOOSE b \in 0..column :
                            /\ is_char_boundary(line, b)
                            /\ \A d \in (b + 1)..column : ~is_char_boundary(line, d))

-----------------------------------------------------------------------------
(* The movement engine: BufferView::move_cursors.                          *)

ColumnsForward(n) == [tag |-> "ColumnsForward", n |-> n]
ColumnsBackward(n) == [tag |-> "ColumnsBackward", n |-> n]
LinesForward(n) == [tag |-> "LinesForward", n |-> n]
LinesBackward(n) == [tag |-> "LinesBackward", n |-> n]
WordsForward(n) == [tag |-> "WordsForward", n |-> n]
WordsBackward(n) == [tag |-> "WordsBackward", n |-> n]
Home == [tag |-> "Home", n |-> 0]
HomeNonWhitespace == [tag |-> "HomeNonWhitespace", n |-> 0]
End == [tag |-> "End", n |-> 0]
FirstLine == [tag |-> "FirstLine", n |-> 0]
LastLine == [tag |-> "LastLine", n |-> 0]

PositionAndAnchor == "PositionAndAnchor"
PositionOnly == "PositionOnly"

\* try_nth(iter, n): Ok(e) with the element of index n, or Err(n') with the
\* count that is left when the iterator ends before
try_nth(iter, n) ==
    IF n < Len(iter) THEN [ok |-> TRUE, e |-> iter[n + 1], n |-> 0]
    ELSE [ok |-> FALSE, e |-> 0, n |-> n - Len(iter)]

\* buffer.line_at(line_index).as_str()
line_at(lines, line_index) == lines[line_index + 1]

RECURSIVE columns_forward_loop(_, _, _)
\* the loop of ColumnsForward, entered after the line of the cursor ended:
\* n characters are left to pass after the line break of line_index
columns_forward_loop(lines, line_index, n) ==
    LET last_line_index == Len(lines) - 1
    IN  IF line_index = last_line_index
        THEN Pos(line_index, str_len(line_at(lines, last_line_index)))
        ELSE LET line == line_at(lines, line_index + 1)
                 r == try_nth(char_indices(line), n)
             IN  IF r.ok THEN Pos(line_index + 1, r.e)
                 ELSE IF r.n = 0 THEN Pos(line_index + 1, str_len(line))
                 ELSE columns_forward_loop(lines, line_index + 1, r.n - 1)

\* ColumnsForward that passes a line break without counting it
columns_forward_free_breaks(lines, position, n) ==
    LET line == line_at(lines, position.line)
        r == try_nth(char_indices(str_from(line, position.col)), n)
    IN  IF r.ok THEN Pos(position.line, position.col + r.e)
        ELSE IF r.n = 0 THEN Pos(position.line, str_len(line))
        ELSE columns_forward_loop(lines, position.line, r.n)

\* ColumnsForward(n) for the cursor at position
columns_forward(lines, position, n) ==
    LET line == line_at(lines, position.line)
        r == try_nth(char_indices(str_from(line, position.col)), n)
    IN  IF r.ok THEN Pos(position.line, position.col + r.e)
        ELSE IF r.n = 0 THEN Pos(position.line, str_len(line))
        ELSE columns_forward_loop(lines, position.line, r.n - 1)

\* the end of the line before line_index, or the start of the first line
previous_line_end(lines, line_index) ==
    IF line_index = 0 THEN Pos(0, 0)
    ELSE Pos(line_index - 1, str_len(line_at(lines, line_index - 1)))

RECURSIVE columns_backward_loop(_, _, _)
\* the loop of ColumnsBackward, entered after the start of the line of the
\* cursor was passed
columns_backward_loop(lines, line_index, n) ==
    IF line_index = 0 THEN Pos(0, 0)
    ELSE LET line == line_at(lines, line_index - 1)
             r == try_nth(Reverse(char_indices(line)), n)
         IN  IF r.ok THEN Pos(line_index - 1, r.e)
             ELSE IF r.n = 0 THEN previous_line_end(lines, line_index - 1)
             ELSE columns_backward_loop(lines, line_index - 1, r.n - 1)

\* ColumnsBackward that stops at the start of the line of the cursor
columns_backward_in_line(lines, position, n) ==
    LET line == line_at(lines, position.line)
        r == try_nth(Reverse(char_indices(str_to(line, position.col))), n)
    IN  IF r.ok THEN Pos(position.line, r.e) ELSE Pos(position.line, 0)

\* ColumnsBackward for the cursor at position; n is the count less one
columns_backward(lines, position, n) ==
    LET line == line_at(lines, position.line)
        r == try_nth(Reverse(char_indices(str_to(line, position.col))), n)
    IN  IF r.ok THEN Pos(position.line, r.e)
        ELSE IF r.n = 0 THEN previous_line_end(lines, position.line)
        ELSE columns_backward_loop(lines, position.line, r.n - 1)

\* usize::saturating_sub
saturating_sub(a, b) == IF a >= b THEN a - b ELSE 0

\* LinesForward that takes the column of the position, never the saved one
lines_forward_unsaved(lines, position, saved_column_byte_index, n) ==
    LET last == saturating_sub(Len(lines), 1)
        line_index == IF position.line + n < last THEN position.line + n ELSE last
    IN  saturate_position(lines, Pos(line_index, position.col))

\* LinesForward that leaves the column as it was saved, whatever the line
lines_forward_unsaturated(lines, position, saved_column_byte_index, n) ==
    LET last == saturating_sub(Len(lines), 1)
        line_index == IF position.line + n < last THEN position.line + n ELSE last
    IN  Pos(line_index, IF saved_column_byte_index.some
                        THEN saved_column_byte_index.v ELSE position.col)

\* LinesForward(n) for the cursor at position, with its saved column
lines_forward(lines, position, saved_column_byte_index, n) ==
    LET last == saturating_sub(Len(lines), 1)
        line_index == IF position.line + n < last THEN position.line + n ELSE last
    IN  saturate_position(lines,
            Pos(line_index, IF saved_column_byte_index.some
                            THEN saved_column_byte_index.v ELSE position.col))

\* LinesBackward(n) for the cursor at position, with its saved column
lines_backward(lines, position, saved_column_byte_index, n) ==
    saturate_position(lines,
        Pos(saturating_sub(position.line, n),
            IF saved_column_byte_index.some
            THEN saved_column_byte_index.v ELSE position.col))

RECURSIVE text_len(_, _)
\* the length of the first k words together
text_len(words, k) ==
    IF k = 0 THEN 0 ELSE text_len(words, k - 1) + str_len(words[k].text)

\* the indices, from `from` on, of all the words, whitespace too
any_words(words, from) ==
    SelectSeq([i \in 1..Len(words) |-> i], LAMBDA i : i >= from)

\* the indices, from `from` on, of the words that are not whitespace
non_whitespace(words, from) ==
    SelectSeq([i \in 1..Len(words) |-> i],
              LAMBDA i : i >= from /\ words[i].kind # "Whitespace")

RECURSIVE words_forward(_, _, _)
\* WordsForward(n) for the cursor at position: the while loop
words_forward(lines, position, n) ==
    LET line == line_at(lines, position.line)
        last_line_index == Len(lines) - 1
    IN  IF n = 0 THEN position
        ELSE IF position.col = str_len(line)
        THEN IF position.line = last_line_index THEN position
             ELSE words_forward(lines, Pos(position.line + 1, 0), n - 1)
        ELSE LET all == WordIter(str_from(line, position.col))
                 r == try_nth(non_whitespace(all, 2), n - 1)
             IN  IF r.ok
                 THEN Pos(position.line,
                          position.col + text_len(all, r.e) - str_len(all[r.e].text))
                 ELSE words_forward(lines, Pos(position.line, str_len(line)), r.n)

RECURSIVE words_backward_loop(_, _, _, _)
\* the while loop of WordsBackward: the cursor is at the end of `line`, which
\* is line_index up to the cursor
words_backward_loop(lines, line_index, line, n) ==
    IF n = 0 THEN Pos(line_index, str_len(line))
    ELSE LET all == Reverse(WordIter(line))
             r == try_nth(non_whitespace(all, 1), n - 1)
             last_kind == IF all = <<>> THEN "Identifier" ELSE all[Len(all)].kind
             n1 == r.n + 1
             n2 == IF last_kind = "Whitespace" THEN n1 - 1 ELSE n1
         IN  IF r.ok THEN Pos(line_index, str_len(line) - text_len(all, r.e))
             ELSE IF n2 = 0 \/ line_index = 0 THEN Pos(line_index, 0)
             ELSE words_backward_loop(lines, line_index - 1,
                                      line_at(lines, line_index - 1), n2 - 1)

\* WordsBackward(n) for the cursor at position
words_backward(lines, position, n) ==
    words_backward_loop(lines, position.line,
                        str_to(line_at(lines, position.line), position.col), n)

\* HomeNonWhitespace for the cursor at position
home_non_whitespace(lines, position) ==
    LET first_word == word_at_start(line_at(lines, position.line))
    IN  Pos(position.line,
            IF first_word.kind = "Whitespace" THEN str_len(first_word.text) ELSE 0)

\* the position the movement gives the cursor of index i
moved_position(lines, g, i, movement) ==
    LET position == g.list[i + 1].position
        n == movement.n
    IN  CASE movement.tag = "ColumnsForward" -> columns_forward(lines, position, n)
          [] movement.tag = "ColumnsBackward" -> columns_backward(lines, position, n - 1)
          [] movement.tag = "LinesForward" ->
                 lines_forward(lines, position, get_saved_column_byte_index(g, i), n)
          [] movement.tag = "LinesBackward" ->
                 lines_backward(lines, position, get_saved_column_byte_index(g, i), n)
          [] movement.tag = "WordsForward" -> words_forward(lines, position, n)
          [] movement.tag = "WordsBackward" -> words_backward(lines, position, n)
          [] movement.tag = "Home" -> Pos(position.line, 0)
          [] movement.tag = "HomeNonWhitespace" -> home_non_whitespace(lines, position)
          [] movement.tag = "End" ->
                 Pos(position.line, str_len(line_at(lines, position.line)))
          [] movement.tag = "FirstLine" -> saturate_position(lines, Pos(0, position.col))
          [] movement.tag = "LastLine" ->
                 saturate_position(lines, Pos(Len(lines) - 1, position.col))

\* the movements that take the line of the cursor and slice it at the column
SlicesLine(movement) ==
    movement.tag \in {"ColumnsForward", "ColumnsBackward", "WordsForward",
                      "WordsBackward", "HomeNonWhitespace", "End"}

\* the position is one of the content
in_content(lines, position) ==
    /\ position.line < Len(lines)
    /\ position.col <= str_len(line_at(lines, position.line))
    /\ is_char_boundary(line_at(lines, position.line), position.col)

\* the anchors set to the positions
anchors_to_positions(list) ==
    [i \in 1..Len(list) |-> Cursor(list[i].position, list[i].position)]

\* BufferView::move_cursors on the cursors of a view whose buffer has the
\* lines; NoContent stands for a buffer that is not there
move_cursors(cursors, lines, movement, movement_kind) ==
    LET g == mut_guard(cursors)
        saving == IF movement.tag \in {"LinesForward", "LinesBackward"}
                  THEN save_column_byte_indices(g) ELSE g
        moved == [i \in 1..Len(g.list) |->
                      Cursor(g.list[i].anchor,
                             moved_position(lines, saving, i - 1, movement))]
    IN  IF lines = NoContent THEN [panic |-> FALSE, cursors |-> cursors]
        ELSE IF movement.tag = "ColumnsBackward" /\ movement.n = 0
        THEN [panic |-> FALSE, cursors |-> release(g)]
        ELSE IF /\ SlicesLine(movement)
                /\ \E i \in 1..Len(g.list) : ~in_content(lines, g.list[i].position)
        THEN [panic |-> TRUE, cursors |-> cursors]
        ELSE [panic |-> FALSE,
              cursors |-> release(guard_set(saving,
                              IF movement_kind = PositionAndAnchor
                              THEN anchors_to_positions(moved) ELSE moved))]

-----------------------------------------------------------------------------
(* Views and their registry: BufferView and BufferViewCollection.          *)

BufferView(client_handle, buffer_handle) ==
    [live |-> TRUE, client_handle |-> client_handle, buffer_handle |-> buffer_handle,
     cursors |-> NewCursors]

\* a slot that holds no view
NoView ==
    [live |-> FALSE, client_handle |-> 0, buffer_handle |-> 0,
     cursors |-> CursorCollection(<<>>, 0, <<>>)]

\* BufferViewCollection::add: the first empty slot is taken, a slot is
\* appended when there is none; the handle is the index of the slot
add(buffer_views, buffer_view) ==
    IF \E i \in 1..Len(buffer_views) : ~buffer_views[i].live
    THEN LET i == CHOOSE k \in 1..Len(buffer_views) :
                      /\ ~buffer_views[k].live
                      /\ \A j \in 1..(k - 1) : buffer_views[j].live
         IN  [views |-> [buffer_views EXCEPT ![i] = buffer_view], handle |-> i - 1]
    ELSE [views |-> Append(buffer_views, buffer_view), handle |-> Len(buffer_views)]

\* BufferViewCollection::defer_remove_buffer_where: the slots of the views
\* the predicate holds for are emptied; the predicate is the set of the
\* <<client, buffer>> pairs it holds for
defer_remove_buffer_where(buffer_views, predicate) ==
    [i \in 1..Len(buffer_views) |->
        IF /\ buffer_views[i].live
           /\ <<buffer_views[i].client_handle, buffer_views[i].buffer_handle>> \in predicate
        THEN NoView ELSE buffer_views[i]]

\* the cursors after a guard under which every cursor was translated
translated(cursors, list) == release(guard_set(mut_guard(cursors), list))

\* for c in &mut guard[..] { c.insert(range) }
insert_each(cursors, range) ==
    translated(cursors, [i \in 1..Len(cursors.list) |-> cursor_insert(cursors.list[i], range)])

\* for c in &mut guard[..] { c.delete(range) }
delete_each(cursors, range) ==
    translated(cursors, [i \in 1..Len(cursors.list) |-> cursor_delete(cursors.list[i], range)])

\* on_buffer_insert_text that passes over the views of other clients than
\* the first
on_buffer_insert_text_one_client(buffer_views, buffer_handle, range) ==
    [i \in 1..Len(buffer_views) |->
        IF /\ buffer_views[i].live
           /\ buffer_views[i].buffer_handle = buffer_handle
           /\ buffer_views[i].client_handle = 0
        THEN [buffer_views[i] EXCEPT !.cursors = insert_each(@, range)]
        ELSE buffer_views[i]]

\* BufferViewCollection::on_buffer_insert_text
on_buffer_insert_text(buffer_views, buffer_handle, range) ==
    [i \in 1..Len(buffer_views) |->
        IF buffer_views[i].live /\ buffer_views[i].buffer_handle = buffer_handle
        THEN [buffer_views[i] EXCEPT !.cursors = insert_each(@, range)]
        ELSE buffer_views[i]]

\* on_buffer_delete_text that shifts the cursors as an insertion does
on_buffer_delete_text_shifting(buffer_views, buffer_handle, range) ==
    [i \in 1..Len(buffer_views) |->
        IF buffer_views[i].live /\ buffer_views[i].buffer_handle = buffer_handle
        THEN [buffer_views[i] EXCEPT !.cursors = insert_each(@, range)]
        ELSE buffer_views[i]]

\* BufferViewCollection::on_buffer_delete_text
on_buffer_delete_text(buffer_views, buffer_handle, range) ==
    [i \in 1..Len(buffer_views) |->
        IF buffer_views[i].live /\ buffer_views[i].buffer_handle = buffer_handle
        THEN [buffer_views[i] EXCEPT !.cursors = delete_each(@, range)]
        ELSE buffer_views[i]]

\* the slots that hold a view of the client on the buffer
current_buffer_views(buffer_views, client_handle, buffer_handle) ==
    {i \in 1..Len(buffer_views) :
        /\ buffer_views[i].live
        /\ buffer_views[i].buffer_handle = buffer_handle
        /\ buffer_views[i].client_handle = client_handle}

\* buffer_view_handle_from_buffer_handle that looks for a view on the buffer
\* of whichever client
buffer_view_handle_from_buffer(buffer_views, client_handle, buffer_handle) ==
    LET current == {i \in 1..Len(buffer_views) :
                        /\ buffer_views[i].live
                        /\ buffer_views[i].buffer_handle = buffer_handle}
    IN  IF current # {}
        THEN [views |-> buffer_views,
              handle |-> (CHOOSE i \in current : \A j \in current : i <= j) - 1]
        ELSE add(buffer_views, BufferView(client_handle, buffer_handle))

\* BufferViewCollection::buffer_view_handle_from_buffer_handle
buffer_view_handle_from_buffer_handle(buffer_views, client_handle, buffer_handle) ==
    LET current == current_buffer_views(buffer_views, client_handle, buffer_handle)
    IN  IF current # {}
        THEN [views |-> buffer_views,
              handle |-> (CHOOSE i \in current : \A j \in current : i <= j) - 1]
        ELSE add(buffer_views, BufferView(client_handle, buffer_handle))

RECURSIVE undo_cursors(_, _, _, _)
\* the loop of BufferView::undo over the edits the buffer has undone: a cursor
\* at the start of each edit, of the edits of one kind
undo_cursors(g, edits, ignore_kind, previous_kind) ==
    IF edits = <<>> THEN g
    ELSE LET edit == Head(edits)
             at == Cursor(edit.range.from, edit.range.from)
         IN  IF ignore_kind.some
             THEN IF ignore_kind.v = edit.kind
                  THEN undo_cursors(g, Tail(edits), ignore_kind, previous_kind)
                  ELSE undo_cursors(guard_add(g, at), Tail(edits), ignore_kind,
                                    previous_kind)
             ELSE IF ~(previous_kind.some /\ previous_kind.v = edit.kind)
                  THEN undo_cursors(guard_add(guard_clear(g), at), Tail(edits),
                                    previous_kind, Some(edit.kind))
                  ELSE undo_cursors(guard_add(g, at), Tail(edits), ignore_kind,
                                    Some(edit.kind))

\* BufferView::undo on the cursors, with the edits the buffer has undone
view_undo(cursors, edits) ==
    IF Len(edits) = 0 THEN cursors
    ELSE release(undo_cursors(guard_clear(mut_guard(cursors)), edits, None, None))

\* a step of the views: the operation, its arguments, what it returned and
\* the registry it leaves
ViewStep(op, a, r, v) ==
    /\ views' = v
    /\ lastOp' = op
    /\ arg' = a
    /\ ret' = r
    /\ panicked' = FALSE
    /\ UNCHANGED <<history, content, original, pending, adds, runs, command_line,
                   extensions>>

ViewPanic(op, a) ==
    /\ Panic(op, a)
    /\ UNCHANGED <<adds, runs>>

\* views[handle].move_cursors(buffers, movement, movement_kind), the content
\* being the one of the buffer of the view
MoveCursors(handle, movement, movement_kind) ==
    LET r == move_cursors(views[handle + 1].cursors, content, movement, movement_kind)
    IN  IF r.panic THEN ViewPanic("move_cursors", <<handle, movement, movement_kind>>)
        ELSE ViewStep("move_cursors", <<handle, movement, movement_kind>>, <<>>,
                      [views EXCEPT ![handle + 1].cursors = r.cursors])

\* views[handle].undo(...), the buffer having undone the edits
ViewUndo(handle, edits) ==
    ViewStep("undo", <<handle>>, <<>>,
             [views EXCEPT ![handle + 1].cursors = view_undo(@, edits)])

\* buffer_views.on_buffer_insert_text(buffer_handle, range)
OnBufferInsertText(buffer_handle, range) ==
    ViewStep("on_buffer_insert_text", <<buffer_handle, range>>, <<>>,
             on_buffer_insert_text(views, buffer_handle, range))

\* buffer_views.on_buffer_delete_text(buffer_handle, range)
OnBufferDeleteText(buffer_handle, range) ==
    ViewStep("on_buffer_delete_text", <<buffer_handle, range>>, <<>>,
             on_buffer_delete_text(views, buffer_handle, range))

\* buffer_views.buffer_view_handle_from_buffer_handle(client_handle, buffer_handle)
BufferViewHandleFromBufferHandle(client_handle, buffer_handle) ==
    LET r == buffer_view_handle_from_buffer_handle(views, client_handle, buffer_handle)
    IN  ViewStep("buffer_view_handle_from_buffer_handle",
                 <<client_handle, buffer_handle>>, r.handle, r.views)

\* the buffers.defer_remove(view.buffer_handle, events) calls of
\* defer_remove_buffer_where, in the order of the slots: the handles of the
\* buffers it marks, which are freed when the event queue is drained next
deferred_buffers(buffer_views, predicate) ==
    LET removed == SelectSeq([i \in 1..Len(buffer_views) |-> i],
                             LAMBDA i :
                                 /\ buffer_views[i].live
                                 /\ <<buffer_views[i].client_handle,
                                      buffer_views[i].buffer_handle>> \in predicate)
    IN  [k \in 1..Len(removed) |-> buffer_views[removed[k]].buffer_handle]

\* buffer_views.defer_remove_buffer_where(buffers, events, predicate); what
\* it returns here is the buffers it marked
DeferRemoveBufferWhere(predicate) ==
    ViewStep("defer_remove_buffer_where", <<predicate>>,
             deferred_buffers(views, predicate),
             defer_remove_buffer_where(views, predicate))

-----------------------------------------------------------------------------
(* SpecMove: one view with one cursor on a buffer of the movement tests,   *)
(* moved by every movement with the kind PositionAndAnchor.                *)

\* the buffers of tests::buffer_view_cursor_movement
MovementTexts ==
    {<<"a", "b", "\n", "c", " ", "e", "\n", "e", "f", "g", "h", "\n", "i", " ", "k",
       "\n", "l", "m">>,
     <<"1", "2", "3", "\n", " ", " ", "a", "b", "c", " ", "d", "e", "f", "\n",
       "g", "h", "i">>}

\* the counts of the movements: the small ones, and one that no buffer of the
\* tests is long enough for
MoveCounts == (0..MaxCount) \cup {Many}

Horizontal(counts) ==
    {ColumnsForward(n) : n \in counts} \cup {ColumnsBackward(n) : n \in counts}
        \cup {WordsForward(n) : n \in counts} \cup {WordsBackward(n) : n \in counts}
        \cup {Home, HomeNonWhitespace, End}

Vertical(counts) ==
    {LinesForward(n) : n \in counts} \cup {LinesBackward(n) : n \in counts}
        \cup {FirstLine, LastLine}

\* TestContext::with_buffer(text): a buffer and one view of it
InitMove ==
    /\ history = NewHistory
    /\ content \in {from_str(t) : t \in MovementTexts}
    /\ original = content
    /\ views = add(<<>>, BufferView(0, 0)).views
    /\ lastOp = "new"
    /\ arg = <<>>
    /\ ret = <<>>
    /\ pending = <<>>
    /\ adds = 0
    /\ runs = 0
    /\ panicked = FALSE
    /\ NoExtensions
    /\ NoCommandLine

MoveHorizontal ==
    /\ ~panicked
    /\ \E movement \in Horizontal(MoveCounts) : MoveCursors(0, movement, PositionAndAnchor)

MoveVertical ==
    /\ ~panicked
    /\ \E movement \in Vertical(MoveCounts) : MoveCursors(0, movement, PositionAndAnchor)

NextMove ==
    \/ MoveHorizontal
    \/ MoveVertical

SpecMove == InitMove /\ [][NextMove]_vars

-----------------------------------------------------------------------------
(* Properties of the movements.  In a step property the unprimed           *)
(* variables are the view before move_cursors and the primed ones the view *)
(* it leaves.                                                              *)

\* the position after the last character of the content
EndOfContent(lines) == Pos(Len(lines) - 1, Len(lines[Len(lines)]))

\* the step is a move_cursors with a movement of the tag that returned
Moved(tag) ==
    /\ lastOp' = "move_cursors"
    /\ ~panicked'
    /\ arg'[2].tag = tag

\* the position of cursor i of the view of SpecMove and SpecCursors
PositionOf(v, i) == v[1].cursors.list[i].position

\* the first buffer of tests::buffer_view_cursor_movement
FirstTestBuffer ==
    <<<<"a", "b">>, <<"c", " ", "e">>, <<"e", "f", "g", "h">>, <<"i", " ", "k">>,
      <<"l", "m">>>>

\* C16: ColumnsForward(n) moves the position of each cursor to the position n
\* characters later in the buffer read as one sequence of characters in which
\* a line break is one character, and to the end of the last line when fewer
\* than n characters are left; from (2,2) of the first buffer of the tests,
\* n = 0 gives (2,2), n = 3 gives (3,0), n = 7 gives (4,0), n = 999 gives (4,2).
C16_ColumnsForward ==
    [][Moved("ColumnsForward") =>
          LET n == arg'[2].n
              last == Offset(content, EndOfContent(content))
          IN  /\ Len(views'[1].cursors.list) = Len(views[1].cursors.list)
              /\ \A i \in 1..Len(views[1].cursors.list) :
                     LET p == PositionOf(views, i)
                         q == PositionOf(views', i)
                     IN  /\ in_content(content, q)
                         /\ Offset(content, q) =
                                IF Offset(content, p) + n < last
                                THEN Offset(content, p) + n ELSE last
                         /\ content = FirstTestBuffer /\ p = Pos(2, 2) =>
                                /\ n = 0 => q = Pos(2, 2)
                                /\ n = 3 => q = Pos(3, 0)
                                /\ n = 7 => q = Pos(4, 0)
                                /\ n = Many => q = Pos(4, 2)]_vars

\* ColumnsForward(7) from (2,2) of the first buffer of the tests: two line
\* breaks are passed
C16_Witness ==
    /\ content = FirstTestBuffer
    /\ lastOp = "move_cursors"
    /\ arg[2] = ColumnsForward(7)
    /\ PositionOf(views, 1) = Pos(4, 0)

\* C17: ColumnsBackward(n) moves the position of each cursor n characters
\* back in the buffer read as one sequence of characters in which a line
\* break is one character, and to (0,0) when fewer than n characters precede
\* it; ColumnsBackward(n) after a ColumnsForward(n) that was not stopped by
\* the end of the buffer gives back the position before the two.
C17_ColumnsBackward ==
    [][/\ Moved("ColumnsBackward") =>
              /\ Len(views'[1].cursors.list) = Len(views[1].cursors.list)
              /\ \A i \in 1..Len(views[1].cursors.list) :
                     LET p == PositionOf(views, i)
                         q == PositionOf(views', i)
                     IN  /\ in_content(content, q)
                         /\ Offset(content, q) =
                                IF Offset(content, p) >= arg'[2].n
                                THEN Offset(content, p) - arg'[2].n ELSE 0
       /\ Moved("ColumnsForward") =>
              \A i \in 1..Len(views[1].cursors.list) :
                  LET p == PositionOf(views, i)
                      back == move_cursors(views'[1].cursors, content,
                                           ColumnsBackward(arg'[2].n), arg'[3])
                  IN  Offset(content, p) + arg'[2].n
                              <= Offset(content, EndOfContent(content)) =>
                          /\ ~back.panic
                          /\ back.cursors.list[i].position = p]_vars

\* ColumnsBackward(7) from (2,2) of the first buffer of the tests: two line
\* breaks are passed
C17_Witness ==
    /\ content = FirstTestBuffer
    /\ lastOp = "move_cursors"
    /\ arg[2] = ColumnsBackward(7)
    /\ PositionOf(views, 1) = Pos(0, 2)

\* one word step forward, in the words of C18: from a column inside a line
\* to the start of the next word that is not whitespace after the word or
\* the whitespace under the cursor, or to the end of the line; from the end
\* of a line to the start of the next line, or nowhere from the last line
WordStep(lines, p) ==
    LET line == line_at(lines, p.line)
        kind(c) == word_kind(line[c + 1])
        under_end == CHOOSE e \in (p.col + 1)..Len(line) :
                         /\ \A c \in p.col..(e - 1) : kind(c) = kind(p.col)
                         /\ e = Len(line) \/ kind(e) # kind(p.col)
        starts == {c \in under_end..(Len(line) - 1) : kind(c) # "Whitespace"}
    IN  IF p.col = Len(line)
        THEN IF p.line = Len(lines) - 1 THEN p ELSE Pos(p.line + 1, 0)
        ELSE IF starts = {} THEN Pos(p.line, Len(line))
        ELSE Pos(p.line, CHOOSE c \in starts : \A d \in starts : c <= d)

RECURSIVE WordSteps(_, _, _)
\* n word steps forward
WordSteps(lines, p, n) ==
    IF n = 0 \/ WordStep(lines, p) = p THEN p
    ELSE WordSteps(lines, WordStep(lines, p), n - 1)

\* C18: WordsForward(n) moves each cursor as n single word steps do, and
\* WordsForward(a) followed by WordsForward(b) ends where WordsForward(a + b)
\* ends.
C18_WordsForward ==
    [][Moved("WordsForward") =>
          /\ Len(views'[1].cursors.list) = Len(views[1].cursors.list)
          /\ \A i \in 1..Len(views[1].cursors.list) :
                 /\ PositionOf(views', i)
                        = WordSteps(content, PositionOf(views, i), arg'[2].n)
                 /\ \A b \in 0..MaxSteps :
                        LET then_b == move_cursors(views'[1].cursors, content,
                                                   WordsForward(b), arg'[3])
                            at_once == move_cursors(views[1].cursors, content,
                                                    WordsForward(arg'[2].n + b), arg'[3])
                        IN  /\ ~then_b.panic /\ ~at_once.panic
                            /\ then_b.cursors.list[i].position
                                   = at_once.cursors.list[i].position]_vars

\* WordsForward(3) to (3,2) of the first buffer of the tests, from the line
\* before: to the end of that line, to the start of the next one, to its
\* second word
C18_Witness ==
    /\ content = FirstTestBuffer
    /\ lastOp = "move_cursors"
    /\ arg[2] = WordsForward(3)
    /\ PositionOf(views, 1) = Pos(3, 2)

LinesTags == {"LinesForward", "LinesBackward"}

\* the operation before the step was a LinesForward or a LinesBackward
AfterLines == lastOp = "move_cursors" /\ arg[2].tag \in LinesTags

\* the column cursor i had when the vertical motions that the step continues
\* began; its column now when the step continues none
StartColumn(i) ==
    IF AfterLines THEN views[1].cursors.saved[i] ELSE PositionOf(views, i).col

\* C19: LinesForward(n) and LinesBackward(n) change the line of each cursor
\* by n, saturating at 0 and at the last line, and put its column at the
\* saved column clamped to the length of the new line; the saved column is
\* the one the cursor had before the first of the consecutive vertical
\* motions, and a horizontal motion discards it.
C19_LinesKeepColumn ==
    [][/\ \A tag \in LinesTags : Moved(tag) =>
              /\ Len(views'[1].cursors.list) = Len(views[1].cursors.list)
              /\ \A i \in 1..Len(views[1].cursors.list) :
                     LET p == PositionOf(views, i)
                         q == PositionOf(views', i)
                         n == arg'[2].n
                         length == Len(line_at(content, q.line))
                     IN  /\ q.line = IF tag = "LinesForward"
                                     THEN (IF p.line + n < Len(content) - 1
                                           THEN p.line + n ELSE Len(content) - 1)
                                     ELSE (IF p.line >= n THEN p.line - n ELSE 0)
                         /\ q.col = IF StartColumn(i) < length
                                    THEN StartColumn(i) ELSE length
                         /\ views'[1].cursors.saved[i] = StartColumn(i)
       /\ \A m \in Horizontal(MoveCounts) : Moved(m.tag) =>
              views'[1].cursors.saved = <<>>
       /\ ~AfterLines => views[1].cursors.saved = <<>>]_vars

\* back at column 4 of line 2 of the first buffer of the tests after a
\* LinesBackward(1) from line 3, which has three characters only
C19_Witness ==
    /\ content = FirstTestBuffer
    /\ lastOp = "move_cursors"
    /\ arg[2] = LinesBackward(1)
    /\ PositionOf(views, 1) = Pos(2, 4)

-----------------------------------------------------------------------------
(* SpecCursors: one view on a buffer of two lines.  An undo puts cursors   *)
(* at the starts of the edits it took back; every movement moves them,     *)
(* with their anchors or without.                                          *)

\* the positions of the content
PositionsOf(lines) ==
    {Pos(l, c) : l \in 0..(Len(lines) - 1), c \in 0..MaxCol} \cap
        {p \in [line : 0..(Len(lines) - 1), col : 0..MaxCol] : in_content(lines, p)}

\* the edits of a group that an undo took back: insertions at up to
\* MaxCursors places of the content, the first place first
UndoneEdits(lines) ==
    LET places == {s \in SUBSET PositionsOf(lines) :
                       Cardinality(s) >= 1 /\ Cardinality(s) <= MaxCursors}
        in_order(s) == CHOOSE q \in [1..Cardinality(s) -> s] :
                           \A i \in 1..(Cardinality(s) - 1) : PosLess(q[i], q[i + 1])
    IN  {[i \in 1..Cardinality(s) |->
             [kind |-> Insert, range |-> between(in_order(s)[i], in_order(s)[i])]] :
         s \in places}

CursorTexts == {<<"a", "b", "\n", "c", "d">>}

InitCursors ==
    /\ history = NewHistory
    /\ content \in {from_str(t) : t \in CursorTexts}
    /\ original = content
    /\ views = add(<<>>, BufferView(0, 0)).views
    /\ lastOp = "new"
    /\ arg = <<>>
    /\ ret = <<>>
    /\ pending = <<>>
    /\ adds = 0
    /\ runs = 0
    /\ panicked = FALSE
    /\ NoExtensions
    /\ NoCommandLine

CursorsUndo ==
    /\ ~panicked
    /\ \E edits \in UndoneEdits(content) : ViewUndo(0, edits)

CursorsMove ==
    /\ ~panicked
    /\ \E movement \in Horizontal(0..MaxSteps) \cup Vertical(0..MaxSteps),
          movement_kind \in {PositionAndAnchor, PositionOnly} :
           MoveCursors(0, movement, movement_kind)

NextCursors ==
    \/ CursorsUndo
    \/ CursorsMove

SpecCursors == InitCursors /\ [][NextCursors]_vars

-----------------------------------------------------------------------------
(* Properties of the cursors of a view.                                    *)

\* the cursors are in the order of their positions
SortedByPosition(list) ==
    \A i \in 1..(Len(list) - 1) : PosLeq(list[i].position, list[i + 1].position)

\* the selections of two cursors have more in common than an end
overlaps(a, b) ==
    /\ PosLess(to_range(a).from, to_range(b).to)
    /\ PosLess(to_range(b).from, to_range(a).to)

\* C12: after every release of a mutation guard of a cursor collection, those
\* of move_cursors and undo among them, the cursors are sorted by position
\* and no two of them have selections that overlap.
C12_SortedAndDisjoint ==
    \A v \in 1..Len(views) :
        views[v].live =>
            /\ SortedByPosition(views[v].cursors.list)
            /\ \A i, j \in 1..Len(views[v].cursors.list) :
                   i # j => ~overlaps(views[v].cursors.list[i], views[v].cursors.list[j])

\* C20: after move_cursors with the kind PositionAndAnchor on a view whose
\* buffer is there, every cursor of the view has its anchor at its position,
\* whichever movement and count, 0 too.
C20_AnchorAtPosition ==
    [][(lastOp' = "move_cursors" /\ ~panicked' /\ arg'[3] = PositionAndAnchor) =>
          \A i \in 1..Len(views'[arg'[1] + 1].cursors.list) :
              LET c == views'[arg'[1] + 1].cursors.list[i]
              IN  c.anchor = c.position]_vars

-----------------------------------------------------------------------------
(* SpecRegistry: views of the clients on the buffers are looked up, opened *)
(* and closed.                                                             *)

\* two clients
Clients == {0, 1}

Buffers == 0..MaxBuffer

\* the predicates of defer_remove_buffer_where: the view of one client on a
\* buffer, or every view on a buffer
Predicates ==
    {{<<c, b>>} : c \in Clients, b \in Buffers}
        \cup {{<<c, b>> : c \in Clients} : b \in Buffers}

\* BufferViewCollection::default()
InitRegistry ==
    /\ history = NewHistory
    /\ content = NoContent
    /\ original = NoContent
    /\ views = <<>>
    /\ lastOp = "new"
    /\ arg = <<>>
    /\ ret = <<>>
    /\ pending = <<>>
    /\ adds = 0
    /\ runs = 0
    /\ panicked = FALSE
    /\ NoExtensions
    /\ NoCommandLine

RegistryLookUp ==
    /\ ~panicked
    /\ \E client_handle \in Clients, buffer_handle \in Buffers :
           BufferViewHandleFromBufferHandle(client_handle, buffer_handle)

RegistryRemove ==
    /\ ~panicked
    /\ \E predicate \in Predicates : DeferRemoveBufferWhere(predicate)

NextRegistry ==
    \/ RegistryLookUp
    \/ RegistryRemove

SpecRegistry == InitRegistry /\ [][NextRegistry]_vars

\* the step is the operation op
Called(op) == lastOp' = op /\ ~panicked'

\* the slots of the live views of the client on the buffer
LiveViews(v, client_handle, buffer_handle) ==
    {i \in 1..Len(v) : /\ v[i].live
                       /\ v[i].client_handle = client_handle
                       /\ v[i].buffer_handle = buffer_handle}

\* C15: buffer_view_handle_from_buffer_handle(client, buffer) returns the
\* handle of a live view of the client on the buffer when there is one and
\* leaves the registry as it is; it adds one view otherwise, in an empty slot
\* or a new one, and returns its handle.  The same call again returns the
\* same handle, and no two live views have the same client and buffer.
C15_OneViewPerPair ==
    [][Called("buffer_view_handle_from_buffer_handle") =>
          LET client_handle == arg'[1]
              buffer_handle == arg'[2]
              again == buffer_view_handle_from_buffer_handle(views', client_handle,
                                                             buffer_handle)
          IN  /\ IF LiveViews(views, client_handle, buffer_handle) # {}
                 THEN /\ views' = views
                      /\ ret' + 1 \in LiveViews(views, client_handle, buffer_handle)
                 ELSE /\ ret' < Len(views) => ~views[ret' + 1].live
                      /\ ret' >= Len(views) => ret' = Len(views)
                      /\ Len(views') = (IF ret' < Len(views) THEN Len(views)
                                        ELSE Len(views) + 1)
                      /\ views'[ret' + 1] = BufferView(client_handle, buffer_handle)
                      /\ \A i \in 1..Len(views) : i # ret' + 1 => views'[i] = views[i]
              /\ again.handle = ret' /\ again.views = views'
              /\ \A c \in Clients, b \in Buffers :
                     Cardinality(LiveViews(views', c, b)) <= 1]_vars

\* a call that returned the handle of a view behind a slot that a removed
\* view had left empty
C15_Witness ==
    /\ lastOp = "buffer_view_handle_from_buffer_handle"
    /\ Len(views) = 3
    /\ ret = 2
    /\ ~views[2].live
    /\ views[1].live

\* the view is live and the predicate holds for it
Satisfies(view, predicate) ==
    view.live /\ <<view.client_handle, view.buffer_handle>> \in predicate

\* the buffers that the call of the step marked for removal
Marked(handles) == {handles[k] : k \in 1..Len(handles)}

\* C40: after defer_remove_buffer_where(predicate) every view that
\* satisfied the predicate is removed and its buffer marked for removal,
\* every other view is unchanged, and no live view refers to a buffer that
\* was marked, so that none refers to a freed buffer after the next drain
\* of the event queue.
C40_NoViewOfRemovedBuffer ==
    [][Called("defer_remove_buffer_where") =>
        /\ Len(views') = Len(views)
        /\ \A i \in 1..Len(views) :
               IF Satisfies(views[i], arg'[1])
               THEN ~views'[i].live /\ views[i].buffer_handle \in Marked(ret')
               ELSE views'[i] = views[i]
        /\ \A i \in 1..Len(views') :
               views'[i].live => views'[i].buffer_handle \notin Marked(ret')]_vars

\* the same without the views left on a marked buffer
RemovedWhere ==
    [][Called("defer_remove_buffer_where") =>
        /\ Len(views') = Len(views)
        /\ \A i \in 1..Len(views) :
               IF Satisfies(views[i], arg'[1])
               THEN ~views'[i].live /\ views[i].buffer_handle \in Marked(ret')
               ELSE views'[i] = views[i]]_vars

-----------------------------------------------------------------------------
(* SpecFanout: a registry of three views and an emptied slot.  Two clients *)
(* view buffer 0, one of them views buffer 1 too.  An edit of a buffer is  *)
(* told to the views, and so is the edit that takes it back.               *)

\* the slots: client 0 on buffer 0, the slot that the view of client 1 on
\* buffer 1 left, client 1 on buffer 0, client 0 on buffer 1
FanoutRegistry ==
    LET a == add(NoViews, BufferView(0, 0)).views
        b == add(a, BufferView(1, 1)).views
        c == add(b, BufferView(1, 0)).views
        d == add(c, BufferView(0, 1)).views
    IN  defer_remove_buffer_where(d, {<<1, 1>>})

\* the cursors a view of the content can have: the ones an undo left,
\* as they are or with their positions a column further than their anchors
FanoutCursors(lines) ==
    {move_cursors(view_undo(NewCursors, edits), lines, movement, PositionOnly).cursors :
        edits \in UndoneEdits(lines), movement \in {ColumnsForward(0), ColumnsForward(1)}}

\* one cursor in the second column of a line
SecondColumn(lines) ==
    {cursors \in FanoutCursors(lines) :
        /\ Len(cursors.list) = 1
        /\ cursors.list[1].anchor.col = 1
        /\ cursors.list[1].position = cursors.list[1].anchor}

InitFanout ==
    /\ history = NewHistory
    /\ content \in {from_str(t) : t \in CursorTexts}
    /\ original = content
    /\ \E first \in FanoutCursors(content), second \in SecondColumn(content) :
           views = [FanoutRegistry EXCEPT ![1].cursors = first, ![3].cursors = second]
    /\ lastOp = "new"
    /\ arg = <<>>
    /\ ret = <<>>
    /\ pending = <<>>
    /\ adds = 0
    /\ runs = 0
    /\ panicked = FALSE
    /\ NoExtensions
    /\ NoCommandLine

\* the buffers of the registry
FanoutBuffers == {0, 1}

\* text was inserted in a buffer
FanoutInsert ==
    /\ ~panicked
    /\ lastOp = "new"
    /\ \E buffer_handle \in FanoutBuffers, range \in BufferRanges :
           OnBufferInsertText(buffer_handle, range)

\* text of a buffer was deleted
FanoutDelete ==
    /\ ~panicked
    /\ lastOp = "new"
    /\ \E buffer_handle \in FanoutBuffers, range \in BufferRanges :
           OnBufferDeleteText(buffer_handle, range)

\* the edit is taken back or made again: what was inserted is deleted, what
\* was deleted is inserted
FanoutInverse ==
    /\ ~panicked
    /\ \/ /\ lastOp = "on_buffer_insert_text"
          /\ OnBufferDeleteText(arg[1], arg[2])
       \/ /\ lastOp = "on_buffer_delete_text"
          /\ OnBufferInsertText(arg[1], arg[2])

NextFanout ==
    \/ FanoutInsert
    \/ FanoutDelete
    \/ FanoutInverse

SpecFanout == InitFanout /\ [][NextFanout]_vars

-----------------------------------------------------------------------------
(* Properties of the fan-out of an edit to the views.                      *)

\* the step tells the views of an edit
FanoutStep == Called("on_buffer_insert_text") \/ Called("on_buffer_delete_text")

\* where the edit of the step leaves a position
Shifted(p) ==
    IF lastOp' = "on_buffer_insert_text" THEN PosInsert(p, arg'[2]) ELSE PosDelete(p, arg'[2])

\* the position is in the selection of the cursor
Selects(c, p) == PosLeq(to_range(c).from, p) /\ PosLeq(p, to_range(c).to)

\* the cursors of slot i after the step are the cursors before it with their
\* anchors and positions shifted, or cursors that join some of these
ShiftedCursors(i) ==
    LET old == views[i].cursors.list
        new == views'[i].cursors.list
        ends == UNION {{Shifted(old[k].anchor), Shifted(old[k].position)} : k \in 1..Len(old)}
    IN  /\ Len(new) >= 1 /\ Len(new) <= Len(old)
        /\ \A k \in 1..Len(new) : new[k].anchor \in ends /\ new[k].position \in ends
        /\ \A k \in 1..Len(old) :
               \E j \in 1..Len(new) : /\ Selects(new[j], Shifted(old[k].anchor))
                                      /\ Selects(new[j], Shifted(old[k].position))
        /\ Len(new) = Len(old) =>
               {new[k] : k \in 1..Len(new)} =
                   {Cursor(Shifted(old[k].anchor), Shifted(old[k].position)) : k \in 1..Len(old)}

\* C13: on_buffer_insert_text(buf, range) and on_buffer_delete_text(buf,
\* range) shift the anchor and the position of every cursor of every live
\* view on buf, of whichever client, by the insertion or the deletion of
\* range; the views on other buffers and the empty slots are left as they are.
C13_FanOut ==
    [][FanoutStep =>
          /\ Len(views') = Len(views)
          /\ \A i \in 1..Len(views) :
                 IF views[i].live /\ views[i].buffer_handle = arg'[1]
                 THEN /\ views'[i].live
                      /\ views'[i].client_handle = views[i].client_handle
                      /\ views'[i].buffer_handle = views[i].buffer_handle
                      /\ ShiftedCursors(i)
                 ELSE views'[i] = views[i]]_vars

\* the deletion of the first line of buffer 0 has drawn the cursors of both
\* clients to its start; the view on buffer 1 and the empty slot are as before
C13_Witness ==
    /\ lastOp = "on_buffer_delete_text"
    /\ arg = <<0, between(Pos(0, 0), Pos(0, 2))>>
    /\ views[1].cursors.list = <<Cursor(Pos(0, 0), Pos(0, 0)), Cursor(Pos(1, 1), Pos(1, 2))>>
    /\ views[3].cursors.list = <<Cursor(Pos(0, 0), Pos(0, 0))>>
    /\ views[2] = NoView
    /\ views[4] = BufferView(0, 1)

\* the position is before the range or at or after its end
Outside(p, range) == PosLess(p, range.from) \/ PosLeq(range.to, p)

\* the position is in the range, its ends included
Inside(p, range) == PosLeq(range.from, p) /\ PosLeq(p, range.to)

\* the slots of the views on the buffer of the step that have one cursor
OneCursorViews ==
    {i \in 1..Len(views) : /\ views[i].live
                           /\ views[i].buffer_handle = arg'[1]
                           /\ Len(views[i].cursors.list) = 1}

\* the views after the step and after the edit that takes the step back
TakenBack ==
    IF lastOp' = "on_buffer_insert_text"
    THEN on_buffer_delete_text(views', arg'[1], arg'[2])
    ELSE on_buffer_insert_text(views', arg'[1], arg'[2])

\* C14: a position outside the range of an edit is where it was after the
\* edit and the edit that takes it back; a deletion draws a position inside
\* its range to the start of the range; an insertion leaves a position at or
\* after its start at or after its end.
C14_Translation ==
    [][FanoutStep =>
          \A i \in OneCursorViews :
              LET range == arg'[2]
                  before == views[i].cursors.list[1]
                  after == views'[i].cursors.list[1]
                  back == TakenBack[i].cursors.list[1]
                  holds(p, q, b) ==
                      /\ Outside(p, range) => b = p
                      /\ lastOp' = "on_buffer_delete_text" /\ Inside(p, range) =>
                             q = range.from
                      /\ lastOp' = "on_buffer_insert_text" /\ PosLeq(range.from, p) =>
                             PosLeq(range.to, q)
              IN  /\ holds(before.anchor, after.anchor, back.anchor)
                  /\ holds(before.position, after.position, back.position)]_vars

\* the deletion from the second column of the first line to the second
\* column of the second has drawn the anchor of a selection to its start and
\* the position, a column after its end, to a column after its start
C14_Witness ==
    /\ lastOp = "on_buffer_delete_text"
    /\ arg = <<0, between(Pos(0, 1), Pos(1, 1))>>
    /\ views[1].cursors.list = <<Cursor(Pos(0, 1), Pos(0, 2))>>

-----------------------------------------------------------------------------
(* SpecUtf8: one view on a buffer of a line of whitespace only and a line *)
(* that starts with whitespace and ends with a character of two bytes.  An *)
(* undo puts up to two cursors at character boundaries; every movement     *)
(* moves them, with their anchors or without.                              *)

Utf8Texts == {<<" ", " ", "\n", " ", "é">>}

\* the edits of UndoneEdits at two places at most
Utf8Edits(lines) == {edits \in UndoneEdits(lines) : Len(edits) <= 2}

InitUtf8 ==
    /\ history = NewHistory
    /\ content \in {from_str(t) : t \in Utf8Texts}
    /\ original = content
    /\ views = add(NoViews, BufferView(0, 0)).views
    /\ lastOp = "new"
    /\ arg = <<>>
    /\ ret = <<>>
    /\ pending = <<>>
    /\ adds = 0
    /\ runs = 0
    /\ panicked = FALSE
    /\ NoExtensions
    /\ NoCommandLine

Utf8Undo ==
    /\ ~panicked
    /\ \E edits \in Utf8Edits(content) : ViewUndo(0, edits)

Utf8Move ==
    /\ ~panicked
    /\ \E movement \in Horizontal(0..MaxSteps) \cup Vertical(0..MaxSteps),
          movement_kind \in {PositionAndAnchor, PositionOnly} :
           MoveCursors(0, movement, movement_kind)

NextUtf8 ==
    \/ Utf8Undo
    \/ Utf8Move

SpecUtf8 == InitUtf8 /\ [][NextUtf8]_vars

\* the byte indices at which a character of the line starts, and its length
Boundaries(line) ==
    {str_len(SubSeq(line, 1, k)) : k \in 0..Len(line)}

\* the position is at a character boundary of a line of the content
AtBoundary(lines, p) ==
    /\ p.line < Len(lines)
    /\ p.col <= str_len(lines[p.line + 1])
    /\ p.col \in Boundaries(lines[p.line + 1])

\* C21: after move_cursors, with any movement, count and kind, on a view
\* whose cursors were at character boundaries of lines of the buffer, the
\* position of every cursor is in a line of the buffer, at most the byte
\* length of the line and at a UTF-8 character boundary of it.
C21_PositionsAtBoundaries ==
    [][(/\ lastOp' = "move_cursors"
        /\ \A i \in 1..Len(views[1].cursors.list) : AtBoundary(content, PositionOf(views, i)))
       => /\ ~panicked'
          /\ \A i \in 1..Len(views'[1].cursors.list) :
                 AtBoundary(content, PositionOf(views', i))]_vars

\* LinesForward(1) from the end of the line of whitespace, byte 2, to the
\* line below, where byte 2 is inside the character of two bytes: the
\* cursor is at byte 1, the start of that character
C21_Witness ==
    /\ lastOp = "move_cursors"
    /\ arg[2] = LinesForward(1)
    /\ Len(views[1].cursors.list) = 1
    /\ views[1].cursors.saved = <<2>>
    /\ PositionOf(views, 1) = Pos(1, 1)

\* where HomeNonWhitespace is to bring a cursor of the line: the byte index
\* of the first character that is not whitespace, 0 when there is none
HomeTarget(lines, p) ==
    LET line == lines[p.line + 1]
        firsts == {k \in 1..Len(line) : line[k] \notin WhitespaceChars}
    IN  IF firsts = {} THEN Pos(p.line, 0)
        ELSE Pos(p.line, str_len(SubSeq(line, 1, (CHOOSE k \in firsts :
                                                    \A d \in firsts : k <= d) - 1)))

\* C22: HomeNonWhitespace moves each cursor to the byte index of the first
\* character of its line that is not whitespace, to column 0 when the line
\* has none, and leaves it in its line.  (Cursors that the movement brings
\* together are joined, so the positions are compared as sets.)
C22_HomeNonWhitespace ==
    [][(Moved("HomeNonWhitespace") /\ arg'[3] = PositionAndAnchor) =>
          {PositionOf(views', i) : i \in 1..Len(views'[1].cursors.list)} =
              {HomeTarget(content, PositionOf(views, i)) :
                   i \in 1..Len(views[1].cursors.list)}]_vars

-----------------------------------------------------------------------------
(* The command line (src/lib/command.rs).  A text is the sequence of its   *)
(* characters, all of them of one byte here.                               *)

PARAMETERS_CAPACITY == 8
HISTORY_CAPACITY == 10

\* char::is_ascii_whitespace, and char::is_whitespace on these characters
AsciiWhitespace == {" ", "\t", "\n", "\r", "\f"}

RECURSIVE trim_start_matches(_, _)
\* str::trim_start_matches(set): s without its leading characters of the set
trim_start_matches(s, set) ==
    IF s # <<>> /\ Head(s) \in set THEN trim_start_matches(Tail(s), set) ELSE s

\* str::trim_start()
trim_start(s) == trim_start_matches(s, AsciiWhitespace)

\* str::find(set): Some(index of the first character of the set)
find(s, set) ==
    IF \E i \in 1..Len(s) : s[i] \in set
    THEN Some((CHOOSE i \in 1..Len(s) :
                   /\ s[i] \in set
                   /\ \A j \in 1..(i - 1) : s[j] \notin set) - 1)
    ELSE None

\* CommandTokenKind
Text == "Text"
Bang == "Bang"
Unterminated == "Unterminated"

\* what next_token returns when there is a token: its kind, its text and
\* the text after it
Token(kind, token, rest) == [kind |-> kind, token |-> token, rest |-> rest]

\* the characters that end a token that is not quoted
TokenEnds == AsciiWhitespace \cup {"!", "\"", "'", "["}

\* the token from the opening delimiter, which `rest` follows, to the closer
quoted(rest, closer) ==
    LET i == find(rest, {closer})
    IN  IF i.some
        THEN Some(Token(Text, SubSeq(rest, 1, i.v), SubSeq(rest, i.v + 2, Len(rest))))
        ELSE Some(Token(Unterminated, rest, <<>>))

\* a quoted token that ends at the last closer, not at the first
quoted_to_last(rest, closer) ==
    LET ends == {i \in 1..Len(rest) : rest[i] = closer}
        last == CHOOSE i \in ends : \A j \in ends : j <= i
    IN  IF ends # {}
        THEN Some(Token(Text, SubSeq(rest, 1, last - 1), SubSeq(rest, last + 1, Len(rest))))
        ELSE Some(Token(Unterminated, rest, <<>>))

\* next_token of CommandTokenIter::next with quoted_to_last
next_token_to_last(text) ==
    LET rest == trim_start_matches(text, AsciiWhitespace \cup {"\\"})
    IN  IF rest = <<>> THEN None
        ELSE IF rest[1] \in {"\"", "'"} THEN quoted_to_last(Tail(rest), rest[1])
        ELSE IF rest[1] = "[" THEN quoted_to_last(Tail(rest), "]")
        ELSE IF rest[1] = "!" THEN Some(Token(Bang, <<"!">>, Tail(rest)))
        ELSE LET i == find(rest, TokenEnds)
             IN  IF i.some
                 THEN Some(Token(Text, SubSeq(rest, 1, i.v), SubSeq(rest, i.v + 1, Len(rest))))
                 ELSE Some(Token(Text, rest, <<>>))

\* next_token of CommandTokenIter::next
next_token(text) ==
    LET rest == trim_start_matches(text, AsciiWhitespace \cup {"\\"})
    IN  IF rest = <<>> THEN None
        ELSE IF rest[1] \in {"\"", "'"} THEN quoted(Tail(rest), rest[1])
        ELSE IF rest[1] = "[" THEN quoted(Tail(rest), "]")
        ELSE IF rest[1] = "!" THEN Some(Token(Bang, <<"!">>, Tail(rest)))
        ELSE LET i == find(rest, TokenEnds)
             IN  IF i.some
                 THEN Some(Token(Text, SubSeq(rest, 1, i.v), SubSeq(rest, i.v + 1, Len(rest))))
                 ELSE Some(Token(Text, rest, <<>>))

RECURSIVE CommandTokenIter(_)
\* CommandTokenIter { rest }: the (kind, token) pairs it yields
CommandTokenIter(rest) ==
    LET t == next_token(rest)
    IN  IF t.some THEN <<[kind |-> t.v.kind, token |-> t.v.token]>> \o CommandTokenIter(t.v.rest)
        ELSE <<>>

\* struct BuiltinCommand: its names, whether bang_usage is Some, and
\* params.len()
BuiltinCommand(names, bang_usage, params) ==
    [names |-> names, bang_usage |-> bang_usage, params |-> params]

\* tests::create_commands: cmd0 without parameters, and command-name or c
\* with three; both have a bang usage
create_commands ==
    <<BuiltinCommand({<<"c", "m", "d", "0">>}, TRUE, 0),
      BuiltinCommand({<<"c", "o", "m", "m", "a", "n", "d", "-", "n", "a", "m", "e">>,
                      <<"c">>}, TRUE, 3)>>

\* a table whose commands have no bang usage, and of which c takes one
\* parameter
CommandsNoBang ==
    <<BuiltinCommand({<<"c", "m", "d", "0">>}, FALSE, 0),
      BuiltinCommand({<<"c">>}, FALSE, 1)>>

\* struct CommandManager; `capacity` is history.capacity()
CommandManager(builtin_commands, entries, capacity) ==
    [builtin_commands |-> builtin_commands, history |-> entries, capacity |-> capacity]

\* find_command that looks at the first command of the table only
find_command_first_only(self, name) ==
    LET found == {i \in 1..Len(self.builtin_commands) :
                      i = 1 /\ name \in self.builtin_commands[i].names}
    IN  IF found # {} THEN Some((CHOOSE i \in found : \A j \in found : i <= j) - 1)
        ELSE None

\* CommandManager::find_command: CommandSource::Builtin(i) of the first
\* command that lists the name
find_command(self, name) ==
    LET found == {i \in 1..Len(self.builtin_commands) :
                      name \in self.builtin_commands[i].names}
    IN  IF found # {} THEN Some((CHOOSE i \in found : \A j \in found : i <= j) - 1)
        ELSE None

\* CommandParseError: the variant, the text it points at, and the count
\* that TooFewArguments and TooManyArguments carry (0 in the others)
ParseError(error, token, param_count) ==
    [ok |-> FALSE, error |-> error, token |-> token, param_count |-> param_count]

\* Ok((source, bang, args))
ParseOk(source, bang, args) ==
    [ok |-> TRUE, source |-> source, bang |-> bang, args |-> args]

\* [""; PARAMETERS_CAPACITY] with the first arguments set
ArgsArray(args) ==
    [i \in 1..PARAMETERS_CAPACITY |-> IF i <= Len(args) THEN args[i] ELSE <<>>]

RECURSIVE parse_args_name_only(_, _, _, _, _, _)
\* parse_args whose TooFewArguments carries the command name also when
\* there are arguments
parse_args_name_only(tokens, source, bang, command_name, param_count, args) ==
    IF tokens = <<>>
    THEN IF Len(args) < param_count
         THEN ParseError("TooFewArguments", command_name, param_count)
         ELSE ParseOk(source, bang, ArgsArray(args))
    ELSE LET token == Head(tokens)
         IN  IF token.kind = Text
             THEN IF Len(args) = param_count
                  THEN ParseError("TooManyArguments", token.token, param_count)
                  ELSE parse_args_name_only(Tail(tokens), source, bang, command_name,
                                            param_count, Append(args, token.token))
             ELSE IF token.kind = Bang
             THEN ParseError("InvalidArgument", token.token, 0)
             ELSE ParseError("UnterminatedArgument", token.token, 0)

RECURSIVE parse_args(_, _, _, _, _, _)
\* the loop of parse over the tokens after the name and the bang, and the
\* check of the count after it
parse_args(tokens, source, bang, command_name, param_count, args) ==
    IF tokens = <<>>
    THEN IF Len(args) < param_count
         THEN ParseError("TooFewArguments",
                         IF Len(args) > 0 THEN args[Len(args)] ELSE command_name,
                         param_count)
         ELSE ParseOk(source, bang, ArgsArray(args))
    ELSE LET token == Head(tokens)
         IN  IF token.kind = Text
             THEN IF Len(args) = param_count
                  THEN ParseError("TooManyArguments", token.token, param_count)
                  ELSE parse_args(Tail(tokens), source, bang, command_name, param_count,
                                  Append(args, token.token))
             ELSE IF token.kind = Bang
             THEN ParseError("InvalidArgument", token.token, 0)
             ELSE ParseError("UnterminatedArgument", token.token, 0)

\* CommandManager::parse
parse(self, text) ==
    LET tokens == CommandTokenIter(text)
    IN  IF tokens = <<>> THEN ParseError("InvalidCommandName", trim_start(text), 0)
        ELSE IF tokens[1].kind # Text
        THEN ParseError("InvalidCommandName", tokens[1].token, 0)
        ELSE
        LET command_name == tokens[1].token
            bang == Len(tokens) >= 2 /\ tokens[2].kind = Bang
            peeked == SubSeq(tokens, IF bang THEN 3 ELSE 2, Len(tokens))
            source == find_command(self, command_name)
        IN  IF ~source.some THEN ParseError("CommandNotFound", command_name, 0)
            ELSE LET command == self.builtin_commands[source.v + 1]
                 IN  IF bang /\ ~command.bang_usage
                     THEN ParseError("CommandDoesNotAcceptBang", command_name, 0)
                     ELSE parse_args(peeked, source.v, bang, command_name,
                                     command.params, <<>>)

-----------------------------------------------------------------------------
(* SpecParse: CommandManager::parse applied to command texts.              *)

\* most argument pieces of a command text of SpecParse, and most arguments
\* of a list of SpecTokens
MaxArgs == 3

\* how the command texts start: nothing, blanks and backslashes, the names
\* of the tables, an unknown name, a bang, a quoted and an unterminated name
ParseHeads ==
    {<<>>, <<" ">>, <<" ", "\\", " ">>,
     <<"c", "m", "d", "0">>, <<" ", " ", "c">>,
     <<"c", "o", "m", "m", "a", "n", "d", "-", "n", "a", "m", "e">>,
     <<"x">>, <<"!">>, <<"\"", "c", "\"">>, <<"'", "c">>}

\* what follows the name: nothing or a bang
ParseBangs == {<<>>, <<"!">>, <<" ", "!">>}

\* the pieces of the rest: arguments, a bang, an unterminated argument and
\* blanks
ParsePieces ==
    {<<" ", "a">>, <<"'", "b", " ", "c", "'">>, <<"[", "d", "]">>,
     <<" ", "!">>, <<" ", "'", "f">>, <<" ">>}

ParseTexts ==
    {h \o b \o Concat(t) : h \in ParseHeads, b \in ParseBangs,
                           t \in SeqsUpTo(ParsePieces, MaxArgs)}

\* an operation of the command line ran: what the buffers and the views
\* are is left alone
CommandStep(op, a, r) ==
    /\ lastOp' = op
    /\ arg' = a
    /\ ret' = r
    /\ UNCHANGED <<history, content, original, pending, adds, runs, panicked, views,
                   extensions>>

InitParse ==
    /\ history = NewHistory
    /\ content = NoContent
    /\ original = NoContent
    /\ views = NoViews
    /\ lastOp = "new"
    /\ arg \in {<<text>> : text \in ParseTexts}
    /\ ret = <<>>
    /\ pending = <<>>
    /\ adds = 0
    /\ runs = 0
    /\ panicked = FALSE
    /\ NoExtensions
    /\ commands \in {CommandManager(table, <<>>, HISTORY_CAPACITY) :
                         table \in {create_commands, CommandsNoBang}}
    /\ command_iter = <<>>
    /\ picker = <<>>

\* commands.parse(text), as eval_command calls it
Parse ==
    /\ ~panicked
    /\ lastOp = "new"
    /\ CommandStep("parse", arg, parse(commands, arg[1]))
    /\ UNCHANGED command_line

NextParse ==
    \/ Parse

SpecParse == InitParse /\ [][NextParse]_vars

\* the errors of parse about the head of the command
HeadErrors == {"InvalidCommandName", "CommandNotFound", "CommandDoesNotAcceptBang"}

\* the command of the table of `commands` that lists the name
Listed(name) ==
    {i \in 1..Len(commands.builtin_commands) : name \in commands.builtin_commands[i].names}

\* what parse reports about the head of the text whose tokens are given,
\* when the text without a token makes it carry `none`
HeadOf(tokens, none, r) ==
    IF tokens = <<>> THEN r = ParseError("InvalidCommandName", none, 0)
    ELSE IF tokens[1].kind # Text
    THEN r = ParseError("InvalidCommandName", tokens[1].token, 0)
    ELSE IF Listed(tokens[1].token) = {}
    THEN r = ParseError("CommandNotFound", tokens[1].token, 0)
    ELSE IF /\ Len(tokens) >= 2
            /\ tokens[2].kind = Bang
            /\ \A i \in Listed(tokens[1].token) : ~commands.builtin_commands[i].bang_usage
    THEN r = ParseError("CommandDoesNotAcceptBang", tokens[1].token, 0)
    ELSE /\ ~r.ok => r.error \notin HeadErrors
         /\ r.ok => r.bang = (Len(tokens) >= 2 /\ tokens[2].kind = Bang)

\* C23 as stated: parse reports InvalidCommandName (with the offending
\* token, or the empty text when there is no token), else CommandNotFound,
\* else CommandDoesNotAcceptBang, and otherwise bang is true exactly when a
\* `!` token follows the name.
C23_HeadErrors ==
    lastOp = "parse" => HeadOf(CommandTokenIter(arg[1]), <<>>, ret)

\* C23, amended: as stated, but a text without a token is carried by
\* InvalidCommandName without its leading whitespace only, so its
\* backslashes are kept.
C23_HeadErrorsTrimmed ==
    lastOp = "parse" => HeadOf(CommandTokenIter(arg[1]), trim_start(arg[1]), ret)

\* every head error and a parsed bang happened; here a text of backslashes
\* and blanks, which InvalidCommandName carries
C23_Witness ==
    /\ lastOp = "parse"
    /\ arg[1] = <<" ", "\\", " ">>
    /\ ret = ParseError("InvalidCommandName", <<"\\", " ">>, 0)

\* the tokens of the text after the name and the bang that may follow it
ArgumentTokens(tokens) ==
    SubSeq(tokens, IF Len(tokens) >= 2 /\ tokens[2].kind = Bang THEN 3 ELSE 2, Len(tokens))

\* the argument tokens that parse cannot take for a command of `params`
\* parameters: a token that is not Text, and a token beyond the parameters
Refused(arguments, params) ==
    {j \in 1..Len(arguments) : arguments[j].kind # Text \/ j > params}

\* what parse returns for a known command, whose name may take the bang
\* that follows it
ArgumentsOf(name, arguments, params, r) ==
    LET refused == Refused(arguments, params)
        first == CHOOSE j \in refused : \A k \in refused : j <= k
    IN  IF refused # {}
        THEN /\ ~r.ok
             /\ r.token = arguments[first].token
             /\ r.error = CASE arguments[first].kind = Text -> "TooManyArguments"
                            [] arguments[first].kind = Bang -> "InvalidArgument"
                            [] OTHER -> "UnterminatedArgument"
        ELSE IF Len(arguments) < params
        THEN /\ ~r.ok
             /\ r.error = "TooFewArguments"
             /\ r.token = IF arguments = <<>> THEN name ELSE arguments[Len(arguments)].token
        ELSE /\ r.ok
             /\ \A i \in 1..PARAMETERS_CAPACITY :
                    r.args[i] = IF i <= params THEN arguments[i].token ELSE <<>>

\* C24: for a known command parse succeeds only with as many Text argument
\* tokens as the command has parameters, and returns them in order;
\* otherwise the first token it cannot take decides: a Text token beyond the
\* parameters gives TooManyArguments, a bang InvalidArgument, a token
\* without closer UnterminatedArgument, each with that token, and tokens
\* that end early give TooFewArguments with the last argument token or,
\* without one, the command name.
C24_ArgumentErrors ==
    (lastOp = "parse" /\ (~ret.ok => ret.error \notin HeadErrors)) =>
        LET tokens == CommandTokenIter(arg[1])
            arguments == ArgumentTokens(tokens)
            texts == {j \in 1..Len(arguments) : arguments[j].kind = Text}
        IN  \A i \in Listed(tokens[1].token) :
                LET params == commands.builtin_commands[i].params
                IN  /\ ArgumentsOf(tokens[1].token, arguments, params, ret)
                    /\ ret.ok => Cardinality(texts) = params /\ ret.source = i - 1

\* `c a 'b c'` with the table of the tests: two arguments of three, and
\* TooFewArguments carries the second
C24_Witness ==
    /\ lastOp = "parse"
    /\ arg[1] = <<" ", " ", "c", " ", "a", "'", "b", " ", "c", "'">>
    /\ commands.builtin_commands = create_commands
    /\ ret = ParseError("TooFewArguments", <<"b", " ", "c">>, 3)

-----------------------------------------------------------------------------
(* SpecTokens: CommandTokenIter applied to lists of emitted arguments.     *)

\* an argument to emit: its text, the delimiter that opens it ("none" when
\* it is not quoted) and whether a blank goes before it
Argument(text, open, space) == [text |-> text, open |-> open, space |-> space]

\* the delimiter that closes what `open` opens
Closer(open) == IF open = "[" THEN "]" ELSE open

\* the texts to quote, and the one to leave unquoted
QuotedTexts ==
    {<<>>, <<"a", " ", "!">>, <<"'", "\\">>, <<"\"", "[", "]">>}

UnquotedTexts == {<<"b", "]", "\\">>}

\* the arguments that can be emitted: a quoted text does not hold its
\* closer; an unquoted one is not empty, holds no character that ends a
\* token and starts with no backslash
Arguments ==
    {Argument(t, o, s) : t \in QuotedTexts \cup UnquotedTexts,
                         o \in {"\"", "'", "[", "none"}, s \in BOOLEAN} \cap
    {a \in [text : QuotedTexts \cup UnquotedTexts,
            open : {"\"", "'", "[", "none"}, space : BOOLEAN] :
        IF a.open = "none"
        THEN /\ a.text # <<>>
             /\ a.text[1] # "\\"
             /\ \A i \in 1..Len(a.text) : a.text[i] \notin TokenEnds
        ELSE \A i \in 1..Len(a.text) : a.text[i] # Closer(a.open)}

\* the lists of arguments: a blank separates two unquoted arguments
ArgumentLists ==
    {l \in SeqsUpTo(Arguments, MaxArgs) :
        \A i \in 2..Len(l) : (l[i].open = "none" /\ l[i - 1].open = "none") => l[i].space}

\* the argument as it is written in a command
Emit(a) ==
    (IF a.space THEN <<" ">> ELSE <<>>) \o
    (IF a.open = "none" THEN a.text ELSE <<a.open>> \o a.text \o <<Closer(a.open)>>)

\* the command text of a list of arguments
EmitAll(l) == Concat([i \in 1..Len(l) |-> Emit(l[i])])

InitTokens ==
    /\ history = NewHistory
    /\ content = NoContent
    /\ original = NoContent
    /\ views = NoViews
    /\ lastOp = "new"
    /\ arg \in {<<l>> : l \in ArgumentLists}
    /\ ret = <<>>
    /\ pending = <<>>
    /\ adds = 0
    /\ runs = 0
    /\ panicked = FALSE
    /\ NoExtensions
    /\ NoCommandLine

\* CommandTokenIter { rest: text }, iterated to its end
Tokenize ==
    /\ ~panicked
    /\ lastOp = "new"
    /\ CommandStep("tokens", arg, CommandTokenIter(EmitAll(arg[1])))
    /\ UNCHANGED command_line

NextTokens ==
    \/ Tokenize

SpecTokens == InitTokens /\ [][NextTokens]_vars

\* C25: a quoted argument is one Text token of the characters between its
\* opening delimiter and the first closer after it, an unquoted run is one
\* Text token, and so a list of arguments, each quoted in a pair whose
\* closer it does not hold or written as an unquoted run, tokenizes to
\* exactly its texts in order, with or without blanks between the quoted
\* ones.
C25_TokensRoundTrip ==
    lastOp = "tokens" =>
        ret = [i \in 1..Len(arg[1]) |-> [kind |-> Text, token |-> arg[1][i].text]]

\* `''[a !]"'\"` : three quoted arguments, the first empty, without a blank
\* between them
C25_Witness ==
    /\ lastOp = "tokens"
    /\ EmitAll(arg[1]) = <<"'", "'", "[", "a", " ", "!", "]", "\"", "'", "\\", "\"">>
    /\ Len(ret) = 3
    /\ ret[3].token = <<"'", "\\">>

-----------------------------------------------------------------------------
(* SpecCommandIter: CommandIter::next over command texts.                  *)

\* most characters of a text of SpecCommandIter
MaxCommandsLen == 5

\* what CommandIter::next did: it yielded `item` and left `rest`, or it
\* panicked
Yielded(item, rest) == [panic |-> FALSE, break |-> FALSE, item |-> item, rest |-> rest]
IterBreak(rest) == [panic |-> FALSE, break |-> TRUE, item |-> None, rest |-> rest]
IterPanic == [panic |-> TRUE, break |-> FALSE, item |-> None, rest |-> <<>>]

\* the command before index i is yielded, or the inner loop is left when
\* it is empty
yield_or_break(command, rest) ==
    IF command = <<>> THEN IterBreak(rest) ELSE Yielded(Some(command), rest)

RECURSIVE scan_command(_, _)
\* the inner loop of CommandIter::next from the byte index i of the
\* trimmed text; bytes[i] panics when a backslash was the last byte
scan_command(s, i) ==
    IF i = Len(s) THEN Yielded(Some(s), <<>>)
    ELSE IF i > Len(s) THEN IterPanic
    ELSE IF s[i + 1] = "\n" THEN yield_or_break(SubSeq(s, 1, i), SubSeq(s, i + 1, Len(s)))
    ELSE IF s[i + 1] = "\\" THEN scan_command(s, i + 2)
    ELSE IF s[i + 1] = "#"
    THEN LET ends == {j \in i..(Len(s) - 1) : s[j + 1] = "\n"}
             end == IF ends = {} THEN Len(s) ELSE CHOOSE j \in ends : \A k \in ends : j <= k
         IN  yield_or_break(SubSeq(s, 1, i), SubSeq(s, end + 1, Len(s)))
    ELSE scan_command(s, i + 1)

RECURSIVE command_iter_next(_)
\* CommandIter::next
command_iter_next(text) ==
    LET s == trim_start(text)
    IN  IF s = <<>> THEN Yielded(None, s)
        ELSE LET r == scan_command(s, 0)
             IN  IF r.break THEN command_iter_next(r.rest) ELSE r

\* the characters of the texts: a letter, a blank, the newline, the
\* backslash and the comment sign
CommandsChars == {"a", " ", "\n", "\\", "#"}

InitCommandIter ==
    /\ history = NewHistory
    /\ content = NoContent
    /\ original = NoContent
    /\ views = NoViews
    /\ lastOp = "new"
    /\ arg = <<>>
    /\ ret = <<>>
    /\ pending = <<>>
    /\ adds = 0
    /\ runs = 0
    /\ panicked = FALSE
    /\ NoExtensions
    /\ commands = <<>>
    /\ command_iter \in SeqsUpTo(CommandsChars, MaxCommandsLen)
    /\ picker = <<>>

\* CommandIter::next
CommandIterNext ==
    /\ ~panicked
    /\ LET r == command_iter_next(command_iter)
       IN  /\ lastOp' = "next"
           /\ arg' = <<>>
           /\ ret' = r.item
           /\ panicked' = r.panic
           /\ command_iter' = IF r.panic THEN command_iter ELSE r.rest
    /\ UNCHANGED <<history, content, original, pending, adds, runs, views, commands, picker,
                   extensions>>

NextCommandIter ==
    \/ CommandIterNext

SpecCommandIter == InitCommandIter /\ [][NextCommandIter]_vars

RECURSIVE SplitLines(_, _, _)
\* the text from its character i on, split at the newlines that no
\* backslash escapes and without its comments; `line` is what was read of
\* the line of character i
SplitLines(s, line, i) ==
    IF i > Len(s) THEN <<line>>
    ELSE IF s[i] = "\\"
    THEN SplitLines(s, line \o SubSeq(s, i, IF i < Len(s) THEN i + 1 ELSE i), i + 2)
    ELSE IF s[i] = "\n" THEN <<line>> \o SplitLines(s, <<>>, i + 1)
    ELSE IF s[i] = "#"
    THEN LET ends == {j \in i..Len(s) : s[j] = "\n"}
         IN  IF ends = {} THEN <<line>>
             ELSE SplitLines(s, line, CHOOSE j \in ends : \A k \in ends : j <= k)
    ELSE SplitLines(s, Append(line, s[i]), i + 1)

\* the commands of a text: its lines without their leading whitespace,
\* but for the blank ones
CommandsOf(s) ==
    LET lines == SplitLines(s, <<>>, 1)
        trimmed == [i \in 1..Len(lines) |-> trim_start(lines[i])]
    IN  SelectSeq(trimmed, LAMBDA c : c # <<>>)

\* C26: CommandIter yields, in order, the commands of the text: each call
\* of next yields the first command of the text that is left, not empty
\* and without leading whitespace, and leaves the text of the others, and
\* it yields nothing when no commands are left.
C26_CommandsInOrder ==
    [][CommandIterNext =>
        LET commands_left == CommandsOf(command_iter)
        IN  /\ ~panicked'
            /\ IF commands_left = <<>> THEN ret' = None
               ELSE /\ ret' = Some(Head(commands_left))
                    /\ Head(commands_left)[1] \notin AsciiWhitespace
                    /\ CommandsOf(command_iter') = Tail(commands_left)]_vars

\* the same of the calls that return: the text that is left does not end in
\* a backslash that escapes nothing
CommandsInOrderOnReturn ==
    [][(CommandIterNext /\ ~panicked') =>
        LET commands_left == CommandsOf(command_iter)
        IN  IF commands_left = <<>> THEN ret' = None
            ELSE /\ ret' = Some(Head(commands_left))
                 /\ Head(commands_left)[1] \notin AsciiWhitespace
                 /\ CommandsOf(command_iter') = Tail(commands_left)]_vars

-----------------------------------------------------------------------------
(* SpecCommandHistory: CommandManager::add_to_history.                     *)

\* most add_to_history calls in one run of SpecCommandHistory
MaxEntries == 11

\* VecDeque::with_capacity(10).capacity() where the buffer of a VecDeque
\* is a power of two with one slot kept free
PowerOfTwoCapacity == 15

\* VecDeque::with_capacity(HISTORY_CAPACITY).capacity(): at least
\* HISTORY_CAPACITY, and which number is up to the standard library of the
\* build
VecDequeCapacities == {HISTORY_CAPACITY, PowerOfTwoCapacity}

\* CommandManager::add_to_history
add_to_history(self, entry) ==
    IF entry = <<>> THEN self
    ELSE IF Len(self.history) = self.capacity
    THEN [self EXCEPT !.history = Append(Tail(self.history), entry)]
    ELSE [self EXCEPT !.history = Append(self.history, entry)]

\* the entries that are added
HistoryEntries == {<<>>, <<"a">>, <<"b">>}

\* CommandManager::new
InitCommandHistory ==
    /\ history = NewHistory
    /\ content = NoContent
    /\ original = NoContent
    /\ views = NoViews
    /\ lastOp = "new"
    /\ arg = <<>>
    /\ ret = <<>>
    /\ pending = <<>>
    /\ adds = 0
    /\ runs = 0
    /\ panicked = FALSE
    /\ NoExtensions
    /\ commands \in {CommandManager(create_commands, <<>>, capacity) :
                         capacity \in VecDequeCapacities}
    /\ command_iter = <<>>
    /\ picker = <<>>

AddToHistory ==
    /\ ~panicked
    /\ adds < MaxEntries
    /\ \E entry \in HistoryEntries :
        /\ commands' = add_to_history(commands, entry)
        /\ lastOp' = "add_to_history"
        /\ arg' = <<entry>>
        /\ ret' = <<>>
        /\ adds' = adds + 1
    /\ UNCHANGED <<history, content, original, pending, runs, panicked, views,
                   command_iter, picker, extensions>>

NextCommandHistory ==
    \/ AddToHistory

SpecCommandHistory == InitCommandHistory /\ [][NextCommandHistory]_vars

\* the last n entries of a sequence
MostRecent(entries, n) ==
    SubSeq(entries, IF Len(entries) > n THEN Len(entries) - n + 1 ELSE 1, Len(entries))

\* C27: the history holds at most HISTORY_CAPACITY entries, the most recent
\* non-empty ones in the order they were added: add_to_history ignores an
\* empty entry, and appends another after dropping the oldest entry of a
\* full history.
C27_HistoryRing ==
    [][AddToHistory =>
        /\ Len(commands'.history) <= HISTORY_CAPACITY
        /\ commands'.history =
               IF arg'[1] = <<>> THEN commands.history
               ELSE MostRecent(Append(commands.history, arg'[1]), HISTORY_CAPACITY)]_vars

-----------------------------------------------------------------------------
(* The picker (src/lib/picker.rs).  The matcher is of another crate: what  *)
(* it scores a text with is a choice made when the picker is built; it     *)
(* matches a pattern whose characters the text holds in order.             *)

\* the texts of the entries: names, descriptions, words and commands
PickerTexts == {<<"a">>, <<"a", "b">>, <<"b">>}

\* the scores the matcher gives
MaxScore == 1

RECURSIVE is_subsequence(_, _)
\* the text holds the characters of the pattern in their order
is_subsequence(pattern, text) ==
    IF pattern = <<>> THEN TRUE
    ELSE IF text = <<>> THEN FALSE
    ELSE IF Head(pattern) = Head(text) THEN is_subsequence(Tail(pattern), Tail(text))
    ELSE is_subsequence(pattern, Tail(text))

\* self.matcher.fuzzy_match(text, pattern)
matcher_fuzzy_match(self, text, pattern) ==
    IF is_subsequence(pattern, text) THEN Some(self.matcher[text]) ELSE None

\* Picker::fuzzy_match
fuzzy_match(self, text, pattern) ==
    LET score == matcher_fuzzy_match(self, text, pattern)
    IN  IF ~score.some THEN None
        ELSE Some(score.v + (IF Len(text) = Len(pattern) THEN 1 ELSE 0))

\* struct CustomEntry
CustomEntry(name, description) == [name |-> name, description |-> description]

\* struct FilteredEntry; the source is the variant and its index
FilteredEntry(source, score) == [source |-> source, score |-> score]

\* Picker::default with a matcher
NewPicker(matcher) ==
    [matcher |-> matcher,
     custom_entries_len |-> 0,
     custom_entries_buffer |-> <<>>,
     filtered_entries |-> <<>>,
     cursor |-> 0,
     scroll |-> 0]

\* Picker::height
height(self, max_height) ==
    IF Len(self.filtered_entries) < max_height THEN Len(self.filtered_entries)
    ELSE max_height

\* move_cursor that wraps and never stops at an end
move_cursor_modular(self, offset) ==
    IF self.filtered_entries = <<>> THEN self
    ELSE [self EXCEPT !.cursor = (self.cursor + offset) % Len(self.filtered_entries)]

\* move_cursor that stops at the ends and never wraps
move_cursor_saturating(self, offset) ==
    IF self.filtered_entries = <<>> THEN self
    ELSE LET end_index == Len(self.filtered_entries) - 1
             to == self.cursor + offset
         IN  [self EXCEPT !.cursor = IF to > end_index THEN end_index
                                     ELSE IF to < 0 THEN 0 ELSE to]

\* Picker::move_cursor
move_cursor(self, offset) ==
    IF self.filtered_entries = <<>> THEN self
    ELSE
    LET end_index == Len(self.filtered_entries) - 1
    IN  IF offset > 0
        THEN LET at_end == self.cursor = end_index
                 n == IF at_end THEN offset - 1 ELSE offset
                 cursor == IF at_end THEN 0 ELSE self.cursor
             IN  [self EXCEPT !.cursor = IF n < end_index - cursor THEN cursor + n
                                         ELSE end_index]
        ELSE IF offset < 0
        THEN LET at_start == self.cursor = 0
                 n == IF at_start THEN (-offset) - 1 ELSE -offset
                 cursor == IF at_start THEN end_index ELSE self.cursor
             IN  [self EXCEPT !.cursor = IF n < cursor THEN cursor - n ELSE 0]
        ELSE self

\* update_scroll without the scroll to the cursor below the window
update_scroll_up_only(self, max_height) ==
    LET h == height(self, max_height)
        scroll == IF self.cursor < self.scroll THEN self.cursor ELSE self.scroll
        last == IF Len(self.filtered_entries) > h THEN Len(self.filtered_entries) - h ELSE 0
    IN  [self |-> [self EXCEPT !.scroll = IF scroll < last THEN scroll ELSE last],
         height |-> h]

\* Picker::update_scroll: the picker and the height it returns
update_scroll(self, max_height) ==
    LET h == height(self, max_height)
        scroll == IF self.cursor < self.scroll THEN self.cursor
                  ELSE IF self.cursor >= self.scroll + h THEN self.cursor + 1 - h
                  ELSE self.scroll
        last == IF Len(self.filtered_entries) > h THEN Len(self.filtered_entries) - h ELSE 0
    IN  [self |-> [self EXCEPT !.scroll = IF scroll < last THEN scroll ELSE last],
         height |-> h]

\* Picker::clear_filtered
clear_filtered(self) ==
    [self EXCEPT !.filtered_entries = <<>>, !.cursor = 0, !.scroll = 0]

\* clear that forgets the custom entries and keeps the filtered ones
picker_clear_keeps_filtered(self) ==
    [self EXCEPT !.custom_entries_len = 0]

\* Picker::clear
picker_clear(self) ==
    [clear_filtered(self) EXCEPT !.custom_entries_len = 0]

\* Picker::add_custom_entry: a slot of the buffer is used again when there
\* is one
add_custom_entry(self, name, description) ==
    [self EXCEPT
        !.custom_entries_buffer =
            IF self.custom_entries_len < Len(self.custom_entries_buffer)
            THEN [self.custom_entries_buffer EXCEPT
                      ![self.custom_entries_len + 1] = CustomEntry(name, description)]
            ELSE Append(self.custom_entries_buffer, CustomEntry(name, description)),
        !.custom_entries_len = self.custom_entries_len + 1]

\* Picker::filter_custom_entry: the picker and whether the entry matched
filter_custom_entry(self, index, pattern) ==
    LET entry == self.custom_entries_buffer[index + 1]
        name_score == fuzzy_match(self, entry.name, pattern)
        description_score == fuzzy_match(self, entry.description, pattern)
        score == IF ~name_score.some THEN description_score.v
                 ELSE IF ~description_score.some THEN name_score.v
                 ELSE IF name_score.v > description_score.v THEN name_score.v
                 ELSE description_score.v
    IN  IF ~name_score.some /\ ~description_score.some
        THEN [self |-> self, matched |-> FALSE]
        ELSE [self |-> [self EXCEPT !.filtered_entries =
                            Append(@, FilteredEntry(<<"Custom", index>>, score))],
              matched |-> TRUE]

RECURSIVE sorted_by_score(_)
\* sort_unstable_by(|a, b| b.score.cmp(&a.score)) of the entries of a set:
\* every order of them in which no score is above one before it, entries of
\* one score in any order
sorted_by_score(entries) ==
    IF entries = {} THEN {<<>>}
    ELSE UNION {{<<e>> \o rest : rest \in sorted_by_score(entries \ {e})} :
                   e \in {e \in entries : \A other \in entries : other.score <= e.score}}

\* the elements of a vector of entries; their sources make them distinct
EntriesOf(filtered_entries) == {filtered_entries[i] : i \in 1..Len(filtered_entries)}

\* add_custom_entry_filtered that does not sort
add_custom_entry_filtered_unsorted(self, name, description, pattern) ==
    LET added == add_custom_entry(self, name, description)
        r == filter_custom_entry(added, added.custom_entries_len - 1, pattern)
    IN  {r.self}

\* Picker::add_custom_entry_filtered: the pickers that the sort can leave
add_custom_entry_filtered(self, name, description, pattern) ==
    LET added == add_custom_entry(self, name, description)
        r == filter_custom_entry(added, added.custom_entries_len - 1, pattern)
    IN  IF r.matched
        THEN {[r.self EXCEPT !.filtered_entries = sorted] :
                  sorted \in sorted_by_score(EntriesOf(r.self.filtered_entries))}
        ELSE {r.self}

\* the entries that filter pushes for the texts of one source, which are
\* words of the word database or names of commands
matches(self, source, texts, pattern) ==
    LET matched == SelectSeq([i \in 1..Len(texts) |-> i],
                             LAMBDA i : fuzzy_match(self, texts[i], pattern).some)
    IN  [k \in 1..Len(matched) |->
            FilteredEntry(<<source, matched[k] - 1>>,
                          fuzzy_match(self, texts[matched[k]], pattern).v)]

RECURSIVE filter_custom_entries(_, _, _)
\* the loop of filter over the custom entries from index i
filter_custom_entries(self, i, pattern) ==
    IF i >= self.custom_entries_len THEN self
    ELSE filter_custom_entries(filter_custom_entry(self, i, pattern).self, i + 1, pattern)

\* Picker::filter: the pickers that the sort can leave
filter(self, word_indices, command_sources, pattern) ==
    LET pushed == [self EXCEPT !.filtered_entries =
                       matches(self, "WordDatabase", word_indices, pattern) \o
                       matches(self, "Command", command_sources, pattern)]
        all == filter_custom_entries(pushed, 0, pattern)
        len == Len(all.filtered_entries)
        last == IF len > 0 THEN len - 1 ELSE 0
    IN  {[all EXCEPT !.filtered_entries = sorted,
                     !.cursor = IF all.cursor < last THEN all.cursor ELSE last] :
             sorted \in sorted_by_score(EntriesOf(all.filtered_entries))}

-----------------------------------------------------------------------------
(* SpecPicker: the operations of a Picker.                                 *)

\* most custom entries of the picker
MaxCustom == 1
\* farthest move of the cursor in one call
MaxOffset == 3
\* largest height asked of update_scroll
MaxHeight == 3

\* the matchers: a score for each text
Matchers == [PickerTexts -> 0..MaxScore]

\* the custom entries that are added: a name and a description
CustomEntries == {CustomEntry(<<"a">>, <<"b">>), CustomEntry(<<"a", "b">>, <<"b">>)}

\* the words and the command names that filter is given, and the patterns
WordLists == {<<>>, <<<<"a", "b">>>>}
CommandLists == {<<>>, <<<<"b">>>>}
Patterns == {<<>>, <<"a">>, <<"b">>}

InitPicker ==
    /\ history = NewHistory
    /\ content = NoContent
    /\ original = NoContent
    /\ views = NoViews
    /\ lastOp = "new"
    /\ arg = <<>>
    /\ ret = <<>>
    /\ pending = <<>>
    /\ adds = 0
    /\ runs = 0
    /\ panicked = FALSE
    /\ NoExtensions
    /\ commands = <<>>
    /\ command_iter = <<>>
    /\ picker \in {NewPicker(matcher) : matcher \in Matchers}

\* an operation of the picker ran
PickerStep(op, a, r, self) ==
    /\ picker' = self
    /\ CommandStep(op, a, r)
    /\ UNCHANGED <<commands, command_iter>>

MoveCursor ==
    /\ ~panicked
    /\ \E offset \in (-MaxOffset)..MaxOffset :
        PickerStep("move_cursor", <<offset>>, <<>>, move_cursor(picker, offset))

UpdateScroll ==
    /\ ~panicked
    /\ \E max_height \in 0..MaxHeight :
        LET r == update_scroll(picker, max_height)
        IN  PickerStep("update_scroll", <<max_height>>, <<r.height>>, r.self)

PickerClear ==
    /\ ~panicked
    /\ PickerStep("clear", <<>>, <<>>, picker_clear(picker))

ClearFiltered ==
    /\ ~panicked
    /\ PickerStep("clear_filtered", <<>>, <<>>, clear_filtered(picker))

AddCustomEntry ==
    /\ ~panicked
    /\ picker.custom_entries_len < MaxCustom
    /\ \E e \in CustomEntries :
        PickerStep("add_custom_entry", <<e.name, e.description>>, <<>>,
                   add_custom_entry(picker, e.name, e.description))

AddCustomEntryFiltered ==
    /\ ~panicked
    /\ picker.custom_entries_len < MaxCustom
    /\ \E e \in CustomEntries, pattern \in Patterns :
        \E self \in add_custom_entry_filtered(picker, e.name, e.description, pattern) :
            PickerStep("add_custom_entry_filtered", <<e.name, e.description, pattern>>,
                       <<>>, self)

Filter ==
    /\ ~panicked
    /\ \E word_indices \in WordLists, command_sources \in CommandLists,
          pattern \in Patterns :
        \E self \in filter(picker, word_indices, command_sources, pattern) :
            PickerStep("filter", <<word_indices, command_sources, pattern>>, <<>>, self)

NextPicker ==
    \/ PickerClear
    \/ AddCustomEntry
    \/ AddCustomEntryFiltered
    \/ Filter

SpecPicker == InitPicker /\ [][NextPicker]_vars

\* the scores of the filtered entries do not increase from the first entry
\* to the last
ScoresSorted(self) ==
    \A i \in 1..Len(self.filtered_entries), j \in 1..Len(self.filtered_entries) :
        i < j => self.filtered_entries[i].score >= self.filtered_entries[j].score

\* C28: after every filter call, and after every add_custom_entry_filtered
\* call on a picker whose filtered entries were sorted, the scores of the
\* filtered entries are non-increasing from the first to the last.
C28_ScoresNonIncreasing ==
    [][/\ lastOp' = "filter" => ScoresSorted(picker')
       /\ (lastOp' = "add_custom_entry_filtered" /\ ScoresSorted(picker))
              => ScoresSorted(picker')]_vars

\* add_custom_entry_filtered has put a custom entry of a higher score
\* before the entries that filter had found
C28_Witness ==
    /\ lastOp = "add_custom_entry_filtered"
    /\ Len(picker.filtered_entries) >= 3
    /\ picker.filtered_entries[1].source[1] = "Custom"
    /\ picker.filtered_entries[1].score > picker.filtered_entries[2].score
    /\ picker.filtered_entries[2].score > picker.filtered_entries[3].score

-----------------------------------------------------------------------------
(* SpecPickerCursor: the cursor and the scroll of a Picker over filtered   *)
(* entries of words.                                                       *)

\* most words that filter is given in SpecPickerCursor
MaxWords == 4

\* the word of index i: i + 1 letters
WordOfLength(i) == [k \in 1..(i + 1) |-> "a"]

\* the first n words of the word database
FirstWords(n) == [i \in 1..n |-> WordOfLength(i - 1)]

\* a matcher that scores a word with its length
ByLength == [text \in {WordOfLength(i) : i \in 0..MaxWords} |-> Len(text)]

InitPickerCursor ==
    /\ history = NewHistory
    /\ content = NoContent
    /\ original = NoContent
    /\ views = NoViews
    /\ lastOp = "new"
    /\ arg = <<>>
    /\ ret = <<>>
    /\ pending = <<>>
    /\ adds = 0
    /\ runs = 0
    /\ panicked = FALSE
    /\ NoExtensions
    /\ commands = <<>>
    /\ command_iter = <<>>
    /\ picker = NewPicker(ByLength)

\* filter with the first n words, no command and the empty pattern, which
\* every word matches
FilterWords ==
    /\ ~panicked
    /\ \E n \in 0..MaxWords :
        \E self \in filter(picker, FirstWords(n), <<>>, <<>>) :
            PickerStep("filter", <<FirstWords(n), <<>>, <<>>>>, <<>>, self)

NextPickerCursor ==
    \/ FilterWords
    \/ MoveCursor
    \/ UpdateScroll
    \/ ClearFiltered

SpecPickerCursor == InitPickerCursor /\ [][NextPickerCursor]_vars

\* move_cursor(-n) after the move_cursor(+n) of the step puts the cursor
\* back
MovedBack ==
    move_cursor(picker', -arg'[1]).cursor = picker.cursor

\* a move_cursor(+n) with n > 0 on a picker with filtered entries
MovesForward ==
    /\ lastOp' = "move_cursor"
    /\ arg'[1] > 0
    /\ picker.filtered_entries # <<>>

\* C29 as stated: with filtered entries, for every cursor and every n > 0,
\* move_cursor(+n) followed by move_cursor(-n) leaves the cursor where it
\* was.
C29_MoveCursorInverse ==
    [][MovesForward => MovedBack]_vars

\* C29, amended: move_cursor(+n) followed by move_cursor(-n) leaves the
\* cursor where it was exactly when the cursor is on the first entry, or
\* the move does not go past the last entry (cursor + n <= len - 1), or the
\* cursor is on the last entry and n is 1; in the other cases the first
\* move stops at the last entry or wraps, and the second does not undo it.
C29_MoveCursorInverseInRange ==
    [][MovesForward =>
        (MovedBack <=>
            \/ picker.cursor = 0
            \/ picker.cursor + arg'[1] <= Len(picker.filtered_entries) - 1
            \/ picker.cursor = Len(picker.filtered_entries) - 1 /\ arg'[1] = 1)]_vars

\* the cursor went from the first of four entries to the third by
\* move_cursor(+2), from where move_cursor(-2) takes it back
C29_Witness ==
    /\ lastOp = "move_cursor"
    /\ arg = <<2>>
    /\ Len(picker.filtered_entries) = 4
    /\ picker.cursor = 2
    /\ move_cursor(picker, -2).cursor = 0

\* C30: after update_scroll(max_h) with max_h >= 1 on filtered entries the
\* returned height is min(len, max_h), the cursor is in the window
\* (scroll <= cursor < scroll + height) and the window ends in the list
\* (scroll + height <= len).
C30_CursorVisible ==
    (lastOp = "update_scroll" /\ arg[1] >= 1 /\ picker.filtered_entries # <<>>) =>
        LET len == Len(picker.filtered_entries)
            h == ret[1]
        IN  /\ h = IF len < arg[1] THEN len ELSE arg[1]
            /\ picker.scroll <= picker.cursor
            /\ picker.cursor < picker.scroll + h
            /\ picker.scroll + h <= len

\* update_scroll(2) has scrolled down to show the cursor on the last of
\* four entries
C30_Witness ==
    /\ lastOp = "update_scroll"
    /\ arg = <<2>>
    /\ ret = <<2>>
    /\ Len(picker.filtered_entries) = 4
    /\ picker.cursor = 3
    /\ picker.scroll = 2

\* the smaller and the larger of two numbers
Smaller(a, b) == IF a < b THEN a ELSE b
Larger(a, b) == IF a > b THEN a ELSE b

\* where move_cursor(d) takes the cursor of a list of `len` entries: from
\* the last entry a step forward wraps to entry 0, from entry 0 a step back
\* wraps to the last, and the steps that are left stop at the ends
Wrapped(cursor, len, d) ==
    LET last == len - 1
    IN  IF len = 0 \/ d = 0 THEN cursor
        ELSE IF d > 0
        THEN IF cursor = last THEN Smaller(d - 1, last) ELSE Smaller(cursor + d, last)
        ELSE IF cursor = 0 THEN Larger(last - ((-d) - 1), 0) ELSE Larger(cursor + d, 0)

\* C35: move_cursor(d) with d > 0 wraps from the last entry to entry 0,
\* which uses one step, and advances by the d - 1 steps left; from another
\* entry it goes to min(cursor + d, last) without wrapping, so that from
\* the entry before the last two move_cursor(1) reach entry 0; d < 0
\* mirrors this at entry 0; d = 0 and any d on an empty list leave the
\* cursor.
C35_MoveCursorWraps ==
    [][lastOp' = "move_cursor" =>
        LET len == Len(picker.filtered_entries)
        IN  /\ picker'.cursor = Wrapped(picker.cursor, len, arg'[1])
            /\ picker' = [picker EXCEPT !.cursor = picker'.cursor]
            /\ (arg'[1] = 1 /\ len >= 2 /\ picker.cursor = len - 2) =>
                   /\ picker'.cursor = len - 1
                   /\ move_cursor(picker', 1).cursor = 0
            /\ (arg'[1] = -1 /\ len >= 2 /\ picker.cursor = 1) =>
                   /\ picker'.cursor = 0
                   /\ move_cursor(picker', -1).cursor = len - 1]_vars

\* move_cursor(3) from the last of four entries: one step wraps to entry
\* 0 and two are left
C35_Witness ==
    /\ lastOp = "move_cursor"
    /\ arg = <<3>>
    /\ Len(picker.filtered_entries) = 4
    /\ picker.cursor = 2
    /\ picker.scroll = 0

-----------------------------------------------------------------------------
(* SpecPickerOps: every operation of a Picker, with one matcher.           *)

\* a matcher whose scores of two texts differ by two or more, so that the
\* bonus of fuzzy_match makes no two texts equal
ScoreByLength == [text \in PickerTexts |-> 2 * Len(text) + (IF text[1] = "b" THEN 4 ELSE 0)]

InitPickerOps ==
    /\ history = NewHistory
    /\ content = NoContent
    /\ original = NoContent
    /\ views = NoViews
    /\ lastOp = "new"
    /\ arg = <<>>
    /\ ret = <<>>
    /\ pending = <<>>
    /\ adds = 0
    /\ runs = 0
    /\ panicked = FALSE
    /\ NoExtensions
    /\ commands = <<>>
    /\ command_iter = <<>>
    /\ picker = NewPicker(ScoreByLength)

\* filter with the commands and the custom entries, and no word
FilterCommands ==
    /\ ~panicked
    /\ \E command_sources \in CommandLists, pattern \in Patterns :
        \E self \in filter(picker, <<>>, command_sources, pattern) :
            PickerStep("filter", <<<<>>, command_sources, pattern>>, <<>>, self)

NextPickerOps ==
    \/ AddCustomEntry
    \/ AddCustomEntryFiltered
    \/ FilterCommands
    \/ MoveCursor
    \/ UpdateScroll
    \/ PickerClear
    \/ ClearFiltered

SpecPickerOps == InitPickerOps /\ [][NextPickerOps]_vars

\* the indices of the custom entries among the filtered entries
CustomIndices(self) ==
    {self.filtered_entries[k].source[2] :
        k \in {k \in 1..Len(self.filtered_entries) :
                  self.filtered_entries[k].source[1] = "Custom"}}

\* every index the picker holds is valid
IndicesValid(self) ==
    /\ IF self.filtered_entries = <<>> THEN self.cursor = 0
       ELSE self.cursor < Len(self.filtered_entries)
    /\ \A i \in CustomIndices(self) : i < self.custom_entries_len
    /\ self.custom_entries_len <= Len(self.custom_entries_buffer)

\* C38: after any sequence of picker operations the cursor is 0 when the
\* filtered list is empty and below its length otherwise, and every
\* Custom(i) entry of the filtered list has i below the number of custom
\* entries added since the last clear; the slots below that number hold
\* what was added since the clear: an operation other than clear leaves
\* them alone and add_custom_entry writes the slot after them.
C38_IndicesValid ==
    [][/\ IndicesValid(picker')
       /\ lastOp' # "clear" =>
              /\ picker'.custom_entries_len >= picker.custom_entries_len
              /\ \A i \in 1..picker.custom_entries_len :
                     picker'.custom_entries_buffer[i] = picker.custom_entries_buffer[i]
       /\ lastOp' \in {"add_custom_entry", "add_custom_entry_filtered"} =>
              /\ picker'.custom_entries_len = picker.custom_entries_len + 1
              /\ picker'.custom_entries_buffer[picker'.custom_entries_len] =
                     CustomEntry(arg'[1], arg'[2])
       /\ lastOp' = "clear" => picker'.custom_entries_len = 0 /\ picker'.filtered_entries = <<>>]_vars

\* after a clear a custom entry was added into the slot used before, with
\* another name, and filtered in, while the cursor was moved off entry 0
C38_Witness ==
    /\ lastOp = "move_cursor"
    /\ picker.cursor > 0
    /\ picker.custom_entries_len = 1
    /\ Len(picker.custom_entries_buffer) = 1
    /\ 0 \in CustomIndices(picker)

\* C39: for every text every call of CommandIter::next returns without
\* reading past the end of the text, a call that yields a command leaves a
\* shorter text, and a call that yields none leaves nothing to yield: the
\* commands are finitely many and None follows them.
C39_NextReturns ==
    [][lastOp' = "next" =>
        /\ ~panicked'
        /\ ret'.some => Len(command_iter') < Len(command_iter)
        /\ ~ret'.some => command_iter' = <<>>]_vars

\* the same of the calls that return
NextReturnsShorter ==
    [][(lastOp' = "next" /\ ~panicked') =>
        /\ ret'.some => Len(command_iter') < Len(command_iter)
        /\ ~ret'.some => command_iter' = <<>>]_vars
-----------------------------------------------------------------------------
(* Ini (src/src/ini.rs): the sections and the properties of a text of      *)
(* lines.  The texts of the model hold no carriage return.                 *)

\* struct Section (properties is start..end) and struct Property
Section(name, start, end) == [name |-> name, properties |-> [start |-> start, end |-> end]]
Property(key, value) == [key |-> key, value |-> value]

\* Ini::default
NewIni == [sections |-> <<>>, properties |-> <<>>]

\* Ini::clear
ini_clear(self) == NewIni

\* what the body of the loop of Ini::parse leaves: the Ini, and the error it
\* returns with, if any
LineOk(self) == [error |-> None, ini |-> self]
LineErr(self, kind, line_index, column) ==
    [error |-> Some([kind |-> kind, position |-> Pos(line_index, column)]), ini |-> self]

\* the end of the properties of the last section is set
end_last_section(sections, end) ==
    IF sections = <<>> THEN sections
    ELSE [sections EXCEPT ![Len(sections)].properties.end = end]

\* parse_line with a fault: the '=' of a line is looked for before the
\* sections are
parse_line_equals_first(self, i, line) ==
    IF line = <<>> \/ line[1] = ";" THEN LineOk(self)
    ELSE IF line[1] = "["
    THEN LET rest == Tail(line)
             j == find(rest, {"]"})
         IN  IF ~j.some THEN LineErr(self, "ExpectedCloseSquareBrackets", i, Len(rest) + 1)
             ELSE IF j.v = 0 THEN LineErr(self, "EmptySectionName", i, 1)
             ELSE IF Len(rest) - j.v > 1
             THEN LineErr(self, "SectionNotEndedWithCloseSquareBrackets", i, j.v + 1)
             ELSE LET start == Len(self.properties)
                  IN  LineOk([self EXCEPT !.sections =
                                  Append(end_last_section(self.sections, start),
                                         Section(Slice(rest, 0, j.v), start, start))])
    ELSE LET j == find(line, {"="})
         IN  IF j.some /\ j.v = 0 THEN LineErr(self, "EmptyPropertyName", i, 0)
             ELSE IF ~j.some THEN LineErr(self, "ExpectedEquals", i, Len(line))
             ELSE IF self.sections = <<>> THEN LineErr(self, "ExpectedSection", i, 0)
             ELSE LineOk([self EXCEPT !.properties =
                             Append(self.properties,
                                    Property(Slice(line, 0, j.v),
                                             Slice(line, j.v + 1, Len(line))))])

\* Ini::parse, the body of the loop for the line with the index i
parse_line(self, i, line) ==
    IF line = <<>> \/ line[1] = ";" THEN LineOk(self)
    ELSE IF line[1] = "["
    THEN LET rest == Tail(line)
             j == find(rest, {"]"})
         IN  IF ~j.some THEN LineErr(self, "ExpectedCloseSquareBrackets", i, Len(rest) + 1)
             ELSE IF j.v = 0 THEN LineErr(self, "EmptySectionName", i, 1)
             ELSE IF Len(rest) - j.v > 1
             THEN LineErr(self, "SectionNotEndedWithCloseSquareBrackets", i, j.v + 1)
             ELSE LET start == Len(self.properties)
                  IN  LineOk([self EXCEPT !.sections =
                                  Append(end_last_section(self.sections, start),
                                         Section(Slice(rest, 0, j.v), start, start))])
    ELSE IF self.sections = <<>> THEN LineErr(self, "ExpectedSection", i, 0)
    ELSE LET j == find(line, {"="})
         IN  IF j.some /\ j.v = 0 THEN LineErr(self, "EmptyPropertyName", i, 0)
             ELSE IF ~j.some THEN LineErr(self, "ExpectedEquals", i, Len(line))
             ELSE LineOk([self EXCEPT !.properties =
                             Append(self.properties,
                                    Property(Slice(line, 0, j.v),
                                             Slice(line, j.v + 1, Len(line))))])

RECURSIVE parse_lines(_, _, _)
\* Ini::parse, the loop from the line with the index i on: the error of the
\* first line that has one, the Ini as it is then
parse_lines(self, lines, i) ==
    IF i >= Len(lines) THEN LineOk(self)
    ELSE LET r == parse_line(self, i, lines[i + 1])
         IN  IF r.error.some THEN r ELSE parse_lines(r.ini, lines, i + 1)

\* ini_parse with a fault: the properties of the last section are not ended
ini_parse_last_section_open(self, text) == parse_lines(self, Lines(text), 0)

\* Ini::parse: Err(error) or Ok(()), and the Ini it leaves
ini_parse(self, text) ==
    LET r == parse_lines(self, Lines(text), 0)
    IN  IF r.error.some THEN r
        ELSE LineOk([r.ini EXCEPT !.sections =
                        end_last_section(r.ini.sections, Len(r.ini.properties))])

\* Ini::sections, the iterators consumed: the name of every section with its
\* (key, value) pairs
ini_sections(self) ==
    [s \in 1..Len(self.sections) |->
        <<self.sections[s].name,
          LET range == self.sections[s].properties
              properties == Slice(self.properties, range.start, range.end)
          IN  [p \in 1..Len(properties) |-> <<properties[p].key, properties[p].value>>]>>]

-----------------------------------------------------------------------------
(* SpecIni: texts of up to MaxIniLines lines parsed into a new or cleared  *)
(* Ini, one more line parsed into the Ini as the parse left it, and clear. *)

MaxIniLines == 3

\* the lines of the texts: empty, a comment, two section headers, the three
\* faulty headers, two properties (one with '=' and ';' in its value, one
\* with an empty value), the two faulty properties, and a line of one space
IniLines ==
    {<<>>, <<";", "a">>, <<"[", "a", "]">>, <<"[", " ", "]">>,
     <<"[", "]">>, <<"[", "a">>, <<"[", "a", "]", " ">>,
     <<"a", "=", "=", ";">>, <<"a", "=">>,
     <<"=", "a">>, <<"a">>, <<" ">>}

IniTexts == {Join(lines) : lines \in SeqsUpTo(IniLines, MaxIniLines)}

InitIni ==
    /\ history = NewHistory
    /\ content = NoContent
    /\ original = NoContent
    /\ views = NoViews
    /\ lastOp = "new"
    /\ arg = <<>>
    /\ ret = <<>>
    /\ pending = <<>>
    /\ adds = 0
    /\ runs = 0
    /\ panicked = FALSE
    /\ NoCommandLine
    /\ ini = NewIni
    /\ editor = <<>>
    /\ lsp = <<>>

\* an operation of the Ini ran
IniStep(op, a, r, self) ==
    /\ ini' = self
    /\ lastOp' = op
    /\ arg' = a
    /\ ret' = r
    /\ UNCHANGED <<history, content, original, pending, runs, panicked, views,
                   command_line, editor, lsp>>

\* ini.parse(text) on a new or cleared Ini
IniParse ==
    /\ adds = 0
    /\ \E text \in IniTexts :
           LET r == ini_parse(ini, text)
           IN  IniStep("parse", <<text>>, r.error, r.ini)
    /\ adds' = adds + 1

\* ini.parse(text) of one more line on the Ini that a parse left
IniParseAgain ==
    /\ adds = 1
    /\ \E line \in IniLines :
           LET r == ini_parse(ini, line)
           IN  IniStep("parse", <<line>>, r.error, r.ini)
    /\ adds' = adds + 1

\* ini.clear()
IniClear ==
    /\ adds > 0
    /\ IniStep("clear", <<>>, <<>>, ini_clear(ini))
    /\ adds' = 0

NextIni ==
    \/ IniParse
    \/ IniParseAgain
    \/ IniClear

SpecIni == InitIni /\ [][NextIni]_vars

\* the line starts with the character
StartsWith(line, char) == line # <<>> /\ line[1] = char

\* a line that starts with '[' comes before the i-th of the lines (1-based)
HeaderBefore(lines, i) == \E j \in 1..(i - 1) : StartsWith(lines[j], "[")

\* the error kind of a line by its text alone, "" for none; in_section: the
\* line has a section to be in
LineError(line, in_section) ==
    IF line = <<>> \/ StartsWith(line, ";") THEN ""
    ELSE IF StartsWith(line, "[")
    THEN IF \A k \in 1..Len(line) : line[k] # "]" THEN "ExpectedCloseSquareBrackets"
         ELSE IF line[2] = "]" THEN "EmptySectionName"
         ELSE IF \E k \in 1..(Len(line) - 1) : line[k] = "]"
         THEN "SectionNotEndedWithCloseSquareBrackets"
         ELSE ""
    ELSE IF ~in_section THEN "ExpectedSection"
    ELSE IF StartsWith(line, "=") THEN "EmptyPropertyName"
    ELSE IF \A k \in 1..Len(line) : line[k] # "=" THEN "ExpectedEquals"
    ELSE ""

\* the 1-based indices of the offending lines; used: the Ini held a section
\* when parse was called
Offending(lines, used) ==
    {i \in 1..Len(lines) : LineError(lines[i], used \/ HeaderBefore(lines, i)) # ""}

First(S) == CHOOSE i \in S : \A j \in S : i <= j

\* the lines that are skipped
SkippedLines == {<<>>, <<";", "a">>}

\* the lines with the line s inserted k times before the p-th (1-based)
Inserted(lines, p, s, k) ==
    SubSeq(lines, 1, p - 1) \o [n \in 1..k |-> s] \o SubSeq(lines, p, Len(lines))

\* parse of the text on self returns the error of the first offending line,
\* and the same error k lines further down when k skipped lines are
\* inserted above that line
FirstErrorReturned(self, text, used, error) ==
    LET lines == Lines(text)
        bad == Offending(lines, used)
    IN  bad # {} =>
            /\ error.some
            /\ error.v.kind = LineError(lines[First(bad)],
                                        used \/ HeaderBefore(lines, First(bad)))
            /\ error.v.position.line = First(bad) - 1
            /\ \A p \in 1..First(bad), s \in SkippedLines, k \in 1..2 :
                   LET more == ini_parse(self, Join(Inserted(lines, p, s, k))).error
                   IN  /\ more.some
                       /\ more.v.kind = error.v.kind
                       /\ more.v.position = Pos(error.v.position.line + k,
                                                error.v.position.col)

Headers(lines) == {i \in 1..Len(lines) : StartsWith(lines[i], "[")}

PropertyLines(lines, h) ==
    {i \in (h + 1)..Len(lines) :
        /\ lines[i] # <<>>
        /\ ~StartsWith(lines[i], ";")
        /\ \A j \in (h + 1)..i : ~StartsWith(lines[j], "[")}

RECURSIVE InOrder(_)
\* the numbers of the set in increasing order
InOrder(S) == IF S = {} THEN <<>> ELSE <<First(S)>> \o InOrder(S \ {First(S)})

KeyValue(line) ==
    LET eq == First({k \in 1..Len(line) : line[k] = "="})
    IN  <<SubSeq(line, 1, eq - 1), SubSeq(line, eq + 1, Len(line))>>

Described(lines) ==
    LET hs == InOrder(Headers(lines))
    IN  [s \in 1..Len(hs) |->
            <<SubSeq(lines[hs[s]], 2, Len(lines[hs[s]]) - 1),
              LET ps == InOrder(PropertyLines(lines, hs[s]))
              IN  [p \in 1..Len(ps) |-> KeyValue(lines[ps[p]])]>>]

\* C34: Ini::parse of a well-formed text into a new or cleared Ini returns
\* Ok and the Ini yields the sections in file order, each with exactly the
\* (key, value) pairs of the property lines between its header and the next
\* header, in file order; the name is the text between the brackets, the key
\* the text before the first '=' and the value all of the text after it,
\* none of them trimmed.
C34_SectionsAsWritten ==
    [][(lastOp' = "parse" /\ ini = NewIni
            /\ Offending(Lines(arg'[1]), FALSE) = {}) =>
          /\ ~ret'.some
          /\ ini_sections(ini') = Described(Lines(arg'[1]))]_vars

\* two sections, the first with a property whose value holds '=' and ';',
\* the second, named by a space, with none
C34_Witness ==
    /\ lastOp = "parse"
    /\ ~ret.some
    /\ ini_sections(ini)
           = <<<< <<"a">>, << << <<"a">>, <<"=", ";">> >> >> >>, << <<" ">>, <<>> >> >>

-----------------------------------------------------------------------------
(* The events of the debugger protocol                                     *)
(* (src/plugin-remedybg/src/protocol.rs).  A deserializer is the sequence  *)
(* of the bytes it has not yet read; the integers are little-endian.       *)

\* Result<T, DeserializeError>: the value with the bytes left to read, or
\* the error
DeOk(v, rest) == [error |-> "", v |-> v, rest |-> rest]
DeErr(error) == [error |-> error, v |-> <<>>, rest |-> <<>>]

\* Deserializer::read(len)
read(deserializer, len) ==
    IF Len(deserializer) < len THEN DeErr("InsufficientData")
    ELSE DeOk(SubSeq(deserializer, 1, len), SubSeq(deserializer, len + 1, Len(deserializer)))

\* u16::deserialize and u32::deserialize
u16_deserialize(deserializer) ==
    LET r == read(deserializer, 2)
    IN  IF r.error # "" THEN r ELSE DeOk(r.v[1] + 256 * r.v[2], r.rest)

u32_deserialize(deserializer) ==
    LET r == read(deserializer, 4)
    IN  IF r.error # "" THEN r
        ELSE DeOk(r.v[1] + 256 * r.v[2] + 65536 * r.v[3] + 16777216 * r.v[4], r.rest)

\* RemedybgId::deserialize with a fault: the id 0 is taken as any other
RemedybgId_deserialize_any(deserializer) == u32_deserialize(deserializer)

\* RemedybgId::deserialize
RemedybgId_deserialize(deserializer) ==
    LET r == u32_deserialize(deserializer)
    IN  IF r.error # "" THEN r
        ELSE IF r.v = 0 THEN DeErr("InvalidData")
        ELSE r

\* RemedybgStr::deserialize
RemedybgStr_deserialize(deserializer) ==
    LET len == u16_deserialize(deserializer)
    IN  IF len.error # "" THEN len ELSE read(len.rest, len.v)

\* enum RemedybgSourceLocationChangedReason, by discriminant
SourceLocationChangedReasons ==
    <<"Unspecified", "ByCommandLine", "ByDriver", "BreakpointSelected",
      "CurrentFrameChanged", "ActiveThreadChanged", "BreakpointHit", "ExceptionHit",
      "StepOver", "StepIn", "StepOut", "NonUserBreakpoint", "DebugBreak">>

\* RemedybgSourceLocationChangedReason::deserialize
RemedybgSourceLocationChangedReason_deserialize(deserializer) ==
    LET discriminant == u16_deserialize(deserializer)
    IN  IF discriminant.error # "" THEN discriminant
        ELSE IF discriminant.v < Len(SourceLocationChangedReasons)
        THEN DeOk(SourceLocationChangedReasons[discriminant.v + 1], discriminant.rest)
        ELSE DeErr("InvalidData")

\* enum RemedybgEvent: the variant with its fields, the fields of the other
\* variants left at their defaults
Event(variant) ==
    [variant |-> variant, exit_code |-> 0, filename |-> <<>>, line_num |-> 0,
     reason |-> "", breakpoint_id |-> 0, string |-> <<>>]

ExitProcess(exit_code) == [Event("ExitProcess") EXCEPT !.exit_code = exit_code]

SourceLocationChanged(filename, line_num, reason) ==
    [Event("SourceLocationChanged") EXCEPT
        !.filename = filename, !.line_num = line_num, !.reason = reason]

Breakpoint(variant, breakpoint_id) ==
    [Event(variant) EXCEPT !.breakpoint_id = breakpoint_id]

OutputDebugString(string) == [Event("OutputDebugString") EXCEPT !.string = string]

\* RemedybgEvent::deserialize, the arms of the breakpoint events
breakpoint_event(variant, deserializer) ==
    LET breakpoint_id == RemedybgId_deserialize(deserializer)
    IN  IF breakpoint_id.error # "" THEN breakpoint_id
        ELSE DeOk(Breakpoint(variant, breakpoint_id.v), breakpoint_id.rest)

\* RemedybgEvent::deserialize, the arm of SourceLocationChanged
source_location_changed(deserializer) ==
    LET filename == RemedybgStr_deserialize(deserializer)
    IN  IF filename.error # "" THEN filename
        ELSE LET line_num == u32_deserialize(filename.rest)
             IN  IF line_num.error # "" THEN line_num
                 ELSE LET reason == RemedybgSourceLocationChangedReason_deserialize(
                                        line_num.rest)
                      IN  IF reason.error # "" THEN reason
                          ELSE DeOk(SourceLocationChanged(filename.v, line_num.v, reason.v),
                                    reason.rest)

\* RemedybgEvent::deserialize
RemedybgEvent_deserialize(deserializer) ==
    LET discriminant == u16_deserialize(deserializer)
        d == discriminant.v
        rest == discriminant.rest
    IN  IF discriminant.error # "" THEN discriminant
        ELSE IF d = 100
        THEN LET exit_code == u32_deserialize(rest)
             IN  IF exit_code.error # "" THEN exit_code
                 ELSE DeOk(ExitProcess(exit_code.v), exit_code.rest)
        ELSE IF d = 200 THEN source_location_changed(rest)
        ELSE IF d = 600 THEN breakpoint_event("BreakpointHit", rest)
        ELSE IF d = 601 THEN breakpoint_event("BreakpointResolved", rest)
        ELSE IF d = 602 THEN breakpoint_event("BreakpointAdded", rest)
        ELSE IF d = 603 THEN breakpoint_event("BreakpointModified", rest)
        ELSE IF d = 604 THEN breakpoint_event("BreakpointRemoved", rest)
        ELSE IF d = 800
        THEN LET string == RemedybgStr_deserialize(rest)
             IN  IF string.error # "" THEN string
                 ELSE DeOk(OutputDebugString(string.v), string.rest)
        ELSE DeErr("InvalidData")

-----------------------------------------------------------------------------
(* SpecEvents: RemedybgEvent::deserialize on the bytes of a discriminant   *)
(* and a payload, whole or cut short, with bytes of the next message after *)
(* them.                                                                   *)

\* the longest string of a payload and the most bytes after a payload
MaxStr == 2
MaxTrailing == 1

\* the bytes of a u16 and of a u32 on the wire
Wire16(n) == <<n % 256, n \div 256>>
Wire32(n) == <<n % 256, (n \div 256) % 256, (n \div 65536) % 256, n \div 16777216>>

\* the discriminants of the events, and others around them
EventDiscriminants == {0, 100, 101, 200, 512, 599, 600, 601, 602, 603, 604, 605, 800, 65535}

\* ids, exit codes and line numbers, the largest with 31 bits
WireNumbers == {0, 1, 7, 256, 2147483647}

\* strings with their length before them
WireStrings == {Wire16(Len(s)) \o s : s \in SeqsUpTo({0, 65}, MaxStr)}

\* the payloads: a number, a string, or a string with a line and a reason
EventPayloads ==
    {Wire32(n) : n \in WireNumbers}
        \cup WireStrings
        \cup {s \o Wire32(n) \o Wire16(reason) :
                 s \in WireStrings, n \in {0, 7}, reason \in {0, 12, 13}}

\* the inputs: a discriminant, a payload and the bytes after it, and what is
\* left of them when the input ends early
EventInputs ==
    UNION {{SubSeq(Wire16(d) \o p \o t, 1, n) : n \in 0..(2 + Len(p) + Len(t))} :
              d \in EventDiscriminants, p \in EventPayloads,
              t \in SeqsUpTo({1}, MaxTrailing)}

InitEvents ==
    /\ history = NewHistory
    /\ content = NoContent
    /\ original = NoContent
    /\ views = NoViews
    /\ lastOp = "new"
    /\ arg \in {<<bytes>> : bytes \in EventInputs}
    /\ ret = <<>>
    /\ pending = <<>>
    /\ adds = 0
    /\ runs = 0
    /\ panicked = FALSE
    /\ NoCommandLine
    /\ NoExtensions

\* RemedybgEvent::deserialize(deserializer) on the bytes of the input
DeserializeEvent ==
    /\ lastOp = "new"
    /\ CommandStep("deserialize", arg, RemedybgEvent_deserialize(arg[1]))
    /\ UNCHANGED command_line

NextEvents ==
    \/ DeserializeEvent

SpecEvents == InitEvents /\ [][NextEvents]_vars

\* the discriminants that the claim lists, and the variants of 600 to 604
ListedDiscriminants == {100, 200, 600, 601, 602, 603, 604, 800}

BreakpointVariants ==
    <<"BreakpointHit", "BreakpointResolved", "BreakpointAdded", "BreakpointModified",
      "BreakpointRemoved">>

\* the bytes of s from the 0-based index from on
From(s, from) == SubSeq(s, from + 1, Len(s))

\* s starts with the bytes of prefix
Starts(s, prefix) == Len(s) >= Len(prefix) /\ SubSeq(s, 1, Len(prefix)) = prefix

\* the length that a string on the wire starts with, -1 when it is cut short
WireLen(s) == IF Len(s) < 2 THEN -1 ELSE s[1] + 256 * s[2]

\* the string on the wire is whole
WholeString(s) == WireLen(s) >= 0 /\ Len(s) >= 2 + WireLen(s)

\* r is what the claim says of an event with the discriminant d and the
\* payload p
EventAsListed(d, p, r) ==
    IF d \notin ListedDiscriminants THEN r.error = "InvalidData"
    ELSE IF d = 100
    THEN /\ Len(p) < 4 => r.error = "InsufficientData"
         /\ \A n \in WireNumbers :
                Starts(p, Wire32(n)) => r = DeOk(ExitProcess(n), From(p, 4))
    ELSE IF d = 800
    THEN /\ ~WholeString(p) => r.error = "InsufficientData"
         /\ WholeString(p) =>
                r = DeOk(OutputDebugString(SubSeq(p, 3, 2 + WireLen(p))),
                         From(p, 2 + WireLen(p)))
    ELSE IF d = 200
    THEN /\ ~WholeString(p) => r.error = "InsufficientData"
         /\ WholeString(p) =>
                LET filename == SubSeq(p, 3, 2 + WireLen(p))
                    q == From(p, 2 + WireLen(p))
                IN  /\ Len(q) < 6 => r.error = "InsufficientData"
                    /\ \A n \in WireNumbers, k \in 1..Len(SourceLocationChangedReasons) :
                           Starts(q, Wire32(n) \o Wire16(k - 1)) =>
                               r = DeOk(SourceLocationChanged(
                                            filename, n, SourceLocationChangedReasons[k]),
                                        From(q, 6))
    ELSE /\ Len(p) < 4 => r.error = "InsufficientData"
         /\ Starts(p, Wire32(0)) => r.error = "InvalidData"
         /\ \A n \in WireNumbers \ {0} :
                Starts(p, Wire32(n)) =>
                    r = DeOk(Breakpoint(BreakpointVariants[d - 599], n), From(p, 4))

SourceLocationDeserialized ==
    /\ lastOp = "deserialize"
    /\ ret.error = ""
    /\ ret.v.variant = "SourceLocationChanged"
    /\ ret.v.filename = <<65, 0>>
    /\ ret.v.reason = "DebugBreak"

-----------------------------------------------------------------------------
(* The rename mode of the LSP plugin                                       *)
(* (src/plugin-lsp/src/mode/read_line.rs).  The editor holds the mode, the *)
(* plugin read_line_client_handle and the clients.  A client records its   *)
(* rename request and the calls of finish_rename and                       *)
(* cancel_current_request since the request was made.                      *)

\* Client: no rename request yet
NewClient == [rename |-> "none", finished |-> 0, canceled |-> 0]

\* Client::finish_rename and Client::cancel_current_request: the request is
\* no longer outstanding
finish_rename(client) ==
    [client EXCEPT !.rename = "finished", !.finished = client.finished + 1]

cancel_current_request(client) ==
    [client EXCEPT !.rename = "canceled", !.canceled = client.canceled + 1]

\* LspPlugin::get_mut(handle): the client of the handle, if there is one
get_mut(self, handle) == self.clients[handle]

\* Editor::enter_mode(kind)
enter_mode(ed, kind) == [ed EXCEPT !.mode = kind]

\* what on_client_keys leaves and returns
Handled(ed, self) == [editor |-> ed, lsp |-> self, flow |-> Some("Continue")]

\* read_line_client_handle.take() and the call on the client it names, when
\* it names one
take_and_call(self, finish) ==
    LET handle == self.read_line_client_handle
        taken == [self EXCEPT !.read_line_client_handle = None]
    IN  IF handle.some /\ get_mut(self, handle.v).some
        THEN [taken EXCEPT !.clients[handle.v] =
                 Some(IF finish THEN finish_rename(get_mut(self, handle.v).v)
                      ELSE cancel_current_request(get_mut(self, handle.v).v))]
        ELSE taken

\* on_client_keys with a fault: the handle is read and left in place
on_client_keys_keeps_handle(ed, self, poll) ==
    IF poll = "Pending" THEN Handled(ed, self)
    ELSE Handled(enter_mode(ed, "Default"),
                 IF ed.plugin_handle.some
                 THEN [take_and_call(self, poll = "Submitted") EXCEPT
                          !.read_line_client_handle = self.read_line_client_handle]
                 ELSE self)

\* enter_rename_mode, fn on_client_keys(ctx, _, _, poll)
on_client_keys(ed, self, poll) ==
    IF poll = "Pending" THEN Handled(ed, self)
    ELSE Handled(enter_mode(ed, "Default"),
                 IF ed.plugin_handle.some
                 THEN take_and_call(self, poll = "Submitted")
                 ELSE self)

\* enter_rename_mode(editor, plugin_handle, placeholder)
enter_rename_mode(ed, plugin_handle, placeholder) ==
    [enter_mode([ed EXCEPT !.prompt = "rename:",
                           !.plugin_handle = Some(plugin_handle),
                           !.on_client_keys = "rename"],
                "ReadLine")
        EXCEPT !.input = ed.input \o placeholder]

-----------------------------------------------------------------------------
(* SpecRename: clients ask for a rename from the default mode, the read    *)
(* line is polled while the rename mode lasts, and clients stop.           *)

MaxSessions == 2

ClientHandles == {0, 1}

Placeholders == {<<>>, <<"a">>}

ReadLinePolls == {"Pending", "Submitted", "Canceled"}

InitRename ==
    /\ history = NewHistory
    /\ content = NoContent
    /\ original = NoContent
    /\ views = NoViews
    /\ lastOp = "new"
    /\ arg = <<>>
    /\ ret = <<>>
    /\ pending = <<>>
    /\ adds = 0
    /\ runs = 0
    /\ panicked = FALSE
    /\ NoCommandLine
    /\ ini = <<>>
    /\ editor = [mode |-> "Default", plugin_handle |-> None, on_client_keys |-> "",
                 prompt |-> "", input |-> <<>>]
    /\ lsp = [read_line_client_handle |-> None,
              clients |-> [c \in ClientHandles |-> Some(NewClient)]]

\* an operation of the plugin ran
RenameStep(op, a, r, ed, self) ==
    /\ editor' = ed
    /\ lsp' = self
    /\ lastOp' = op
    /\ arg' = a
    /\ ret' = r
    /\ UNCHANGED <<history, content, original, pending, runs, panicked, views,
                   command_line, ini>>

\* a client asks for a rename in the default mode: its request is made,
\* enter_rename_mode runs for the plugin 0 and the client is remembered in
\* read_line_client_handle
StartRename ==
    /\ editor.mode = "Default"
    /\ adds < MaxSessions
    /\ \E handle \in ClientHandles, placeholder \in Placeholders :
           /\ get_mut(lsp, handle).some
           /\ RenameStep("enter_rename_mode", <<handle, placeholder>>,
                         "EnteredReadLineMode",
                         enter_rename_mode(editor, 0, placeholder),
                         [lsp EXCEPT !.read_line_client_handle = Some(handle),
                                     !.clients[handle] =
                                         Some([NewClient EXCEPT !.rename = "outstanding"])])
    /\ adds' = adds + 1

\* the read line is polled in the rename mode and on_client_keys runs
PollReadLine ==
    /\ editor.mode = "ReadLine"
    /\ editor.on_client_keys = "rename"
    /\ \E poll \in ReadLinePolls :
           LET r == on_client_keys(editor, lsp, poll)
           IN  RenameStep("on_client_keys", <<poll>>, r.flow, r.editor, r.lsp)
    /\ UNCHANGED adds

\* a client stops: the plugin has no client for its handle any more
StopClient ==
    /\ \E handle \in ClientHandles :
           /\ get_mut(lsp, handle).some
           /\ RenameStep("stop", <<handle>>, <<>>, editor,
                         [lsp EXCEPT !.clients[handle] = None])
    /\ UNCHANGED adds

NextRename ==
    \/ StartRename
    \/ PollReadLine
    \/ StopClient

SpecRename == InitRename /\ [][NextRename]_vars

\* the number of calls of finish_rename and cancel_current_request on the
\* client of the handle since its request was made; 0 for no client
Calls(self, handle) ==
    IF get_mut(self, handle).some
    THEN get_mut(self, handle).v.finished + get_mut(self, handle).v.canceled
    ELSE 0

\* the clients whose rename request is outstanding
Outstanding(self) ==
    {c \in ClientHandles : get_mut(self, c).some /\ get_mut(self, c).v.rename = "outstanding"}

\* the step is a poll of the rename mode
Polled(poll) == lastOp' = "on_client_keys" /\ arg' = <<poll>>

\* what every step keeps: a Pending poll changes nothing, the other polls
\* take the handle and enter the default mode, every poll returns Continue;
\* calls are made only by polls; at most one request is outstanding
RenameModeKept ==
    /\ Polled("Pending") => editor' = editor /\ lsp' = lsp
    /\ (Polled("Submitted") \/ Polled("Canceled")) =>
           /\ lsp'.read_line_client_handle = None
           /\ editor'.mode = "Default"
    /\ lastOp' = "on_client_keys" => ret' = Some("Continue")
    /\ \A c \in ClientHandles :
           (Calls(lsp', c) > Calls(lsp, c)) =>
               /\ lastOp' = "on_client_keys"
               /\ lsp.read_line_client_handle = Some(c)
               /\ Calls(lsp', c) = 1
    /\ Cardinality(Outstanding(lsp')) <= 1

\* the client c, named by the handle, was called by the poll: finish_rename
\* for Submitted, cancel_current_request for Canceled
CalledOn(c, poll) ==
    /\ get_mut(lsp', c).some
    /\ get_mut(lsp', c).v.finished = (IF poll = "Submitted" THEN 1 ELSE 0)
    /\ get_mut(lsp', c).v.canceled = (IF poll = "Canceled" THEN 1 ELSE 0)

\* C31 as stated: in the rename mode a Pending poll keeps the mode; a
\* Submitted poll calls finish_rename and a Canceled poll calls
\* cancel_current_request on the client named by read_line_client_handle
\* and the handle is taken, so every session ends with exactly one of the
\* two calls, no later poll calls again and at most one request is
\* outstanding; both polls enter the default mode and every poll returns
\* Continue.
C31_RenameEndsOnce ==
    [][/\ RenameModeKept
       /\ \A poll \in {"Submitted", "Canceled"}, c \in ClientHandles :
              (Polled(poll) /\ lsp.read_line_client_handle = Some(c)) =>
                  CalledOn(c, poll)]_vars

\* C31, amended: the call is made when the named client is still there; a
\* session whose client has stopped ends with neither call.
C31_RenameEndsAtMostOnce ==
    [][/\ RenameModeKept
       /\ \A poll \in {"Submitted", "Canceled"}, c \in ClientHandles :
              (Polled(poll) /\ lsp.read_line_client_handle = Some(c)) =>
                  IF get_mut(lsp, c).some
                  THEN CalledOn(c, poll) /\ Outstanding(lsp') = {}
                  ELSE lsp'.clients = lsp.clients]_vars

\* the second session, of the client 1, ended with finish_rename after the
\* first, of the client 0, was canceled
C31_Witness ==
    /\ lastOp = "on_client_keys"
    /\ arg = <<"Submitted">>
    /\ editor.mode = "Default"
    /\ lsp.read_line_client_handle = None
    /\ get_mut(lsp, 0).some /\ get_mut(lsp, 0).v.canceled = 1
    /\ get_mut(lsp, 1).some /\ get_mut(lsp, 1).v.finished = 1

\* a session ended by a poll after its client had stopped
SessionOfStoppedClient ==
    /\ lastOp = "on_client_keys"
    /\ arg = <<"Canceled">>
    /\ ~get_mut(lsp, 0).some
    /\ adds = 1

=============================================================================
